---- MODULE Spec2Model ----
(***************************************************************************)
(* Binding router and macro executor of PRO SUITE (class MacroEngine), the *)
(* keyboard listener callbacks, the two controller adapters' press/release *)
(* de-duplication and the hotkey grammar.                                  *)
(*                                                                         *)
(* Text is modelled as a sequence of one-character strings, so that        *)
(* parsing, upper-casing and substring tests are computed and not assumed. *)
(* The threads started by the router form a bag of records; one model     *)
(* step of a thread runs the statements between two sleeps or between two  *)
(* accesses to shared engine state.  A "with self._lock" block never       *)
(* sleeps, so it is one step.                                              *)
(***************************************************************************)
EXTENDS Integers, Sequences, FiniteSets, Bags, TLC

\* ------------------------------------------------------------------ bounds
\* Threads alive at the same time (the program sets no limit).
MaxTasks == 2

\* ------------------------------------------------------------ text helpers
LowerChars == <<"a","b","c","d","e","f","g","h","i","j","k","l","m",
                "n","o","p","q","r","s","t","u","v","w","x","y","z">>
UpperChars == <<"A","B","C","D","E","F","G","H","I","J","K","L","M",
                "N","O","P","Q","R","S","T","U","V","W","X","Y","Z">>

\* str.upper() on one character
UpperChar(c) ==
    IF \E i \in DOMAIN LowerChars : LowerChars[i] = c
    THEN UpperChars[CHOOSE i \in DOMAIN LowerChars : LowerChars[i] = c]
    ELSE c

\* str.upper()
str_upper(s) == [i \in 1..Len(s) |-> UpperChar(s[i])]

IsSpace(c) == c \in {" ", "\t", "\n"}

RECURSIVE str_lstrip(_)
str_lstrip(s) == IF s # <<>> /\ IsSpace(Head(s)) THEN str_lstrip(Tail(s)) ELSE s

RECURSIVE str_rstrip(_)
str_rstrip(s) ==
    IF s # <<>> /\ IsSpace(s[Len(s)]) THEN str_rstrip(SubSeq(s, 1, Len(s) - 1)) ELSE s

\* str.strip()
str_strip(s) == str_rstrip(str_lstrip(s))

\* str.startswith(p)
str_startswith(s, p) == Len(s) >= Len(p) /\ SubSeq(s, 1, Len(p)) = p

\* "sub in s"
str_contains(s, sub) ==
    \E i \in 1..(Len(s) - Len(sub) + 1) : SubSeq(s, i, i + Len(sub) - 1) = sub

\* str.replace(a, b) for one-character a and b
str_replace_char(s, a, b) == [i \in 1..Len(s) |-> IF s[i] = a THEN b ELSE s[i]]

\* str.replace(pat, "")
RECURSIVE str_remove(_, _)
str_remove(s, pat) ==
    IF s = <<>> THEN <<>>
    ELSE IF str_startswith(s, pat) THEN str_remove(SubSeq(s, Len(pat) + 1, Len(s)), pat)
    ELSE <<Head(s)>> \o str_remove(Tail(s), pat)

\* str.split(c) for a one-character separator: the sequence of the parts
RECURSIVE str_split(_, _)
str_split(s, c) ==
    IF \A i \in 1..Len(s) : s[i] # c THEN <<s>>
    ELSE LET i == CHOOSE j \in 1..Len(s) : s[j] = c /\ \A k \in 1..(j - 1) : s[k] # c
         IN  <<SubSeq(s, 1, i - 1)>> \o str_split(SubSeq(s, i + 1, Len(s)), c)

\* str.split(c, 1)[1]: what follows the first c
str_after_first(s, c) ==
    LET i == CHOOSE j \in 1..Len(s) : s[j] = c /\ \A k \in 1..(j - 1) : s[k] # c
    IN  SubSeq(s, i + 1, Len(s))

\* f"GP:{btn}"
GpPrefix == <<"G","P",":">>

\* ------------------------------------------------------------ hotkey grammar
CTRL  == <<"C","T","R","L">>
ALT   == <<"A","L","T">>
SHIFT == <<"S","H","I","F","T">>
WIN   == <<"W","I","N">>
CONTROL == <<"C","O","N","T","R","O","L">>
WINDOWS == <<"W","I","N","D","O","W","S">>
SUPER == <<"S","U","P","E","R">>
META  == <<"M","E","T","A">>
CMD   == <<"C","M","D">>

MOD_NAMES == {CTRL, ALT, SHIFT, WIN}

is_gamepad_hotkey(s) == str_startswith(str_upper(str_strip(s)), GpPrefix)

\* the parts of a keyboard binding: split on + and -, stripped, upper-cased, empties dropped
HotkeyParts(s) ==
    LET raw == str_split(str_replace_char(s, "-", "+"), "+")
        keep == SelectSeq(raw, LAMBDA p : str_strip(p) # <<>>)
    IN  [i \in 1..Len(keep) |-> str_upper(str_strip(keep[i]))]

\* the modifier a part names, or <<>> when it names none
PartMod(p) ==
    IF p \in {CONTROL, CTRL} THEN CTRL
    ELSE IF p = ALT THEN ALT
    ELSE IF p = SHIFT THEN SHIFT
    ELSE IF p \in {WIN, WINDOWS, SUPER, META} THEN WIN
    ELSE <<>>

\* the key left by the loop over the parts: the last part that is no modifier
RECURSIVE LastKey(_)
LastKey(parts) ==
    IF parts = <<>> THEN <<>>
    ELSE IF PartMod(parts[Len(parts)]) = <<>> THEN parts[Len(parts)]
    ELSE LastKey(SubSeq(parts, 1, Len(parts) - 1))

parse_hotkey(text) ==
    LET s == str_strip(text) IN
    IF s = <<>> THEN [kind |-> "kb", mods |-> {}, key |-> <<>>]
    ELSE IF is_gamepad_hotkey(s)
    THEN [kind |-> "gp", mods |-> {}, key |-> str_upper(str_strip(str_after_first(s, ":")))]
    ELSE LET parts == HotkeyParts(s)
             mods  == {PartMod(parts[i]) : i \in 1..Len(parts)} \ {<<>>}
             key   == LastKey(parts)
         IN  [kind |-> "kb", mods |-> mods,
              key  |-> IF key = <<>> /\ parts # <<>> THEN parts[Len(parts)] ELSE key]

\* ------------------------------------------------------------ hotkey texts
RECURSIVE str_join(_, _)
str_join(parts, sep) ==
    IF parts = <<>> THEN <<>>
    ELSE IF Len(parts) = 1 THEN parts[1]
    ELSE parts[1] \o <<sep>> \o str_join(Tail(parts), sep)

\* format_hotkey
format_hotkey(mods, key) ==
    LET k == str_upper(key)
        nice == (IF CTRL \in mods THEN << <<"C","t","r","l">> >> ELSE <<>>)
                \o (IF ALT \in mods THEN << <<"A","l","t">> >> ELSE <<>>)
                \o (IF SHIFT \in mods THEN << <<"S","h","i","f","t">> >> ELSE <<>>)
                \o (IF WIN \in mods THEN << <<"W","i","n">> >> ELSE <<>>)
                \o (IF k # <<>> THEN <<k>> ELSE <<>>)
    IN  str_join(nice, "+")

\* binding texts as a configuration file or the capture window can hold them:
\* a modifier prefix, in several spellings, followed by a key
HotkeyPrefixes ==
    { <<>>, <<"C","t","r","l","+">>, <<"A","l","t","+">>, <<"S","h","i","f","t","+">>,
      <<"W","i","n","+">>, <<"C","t","r","l","+","A","l","t","+">>,
      <<"C","t","r","l","+","S","h","i","f","t","+">>,
      <<"c","t","r","l","-","s","h","i","f","t","-">>, <<"C","o","n","t","r","o","l","+">>,
      <<"S","u","p","e","r"," ","+"," ">>,
      <<"C","t","r","l","+","A","l","t","+","S","h","i","f","t","+","W","i","n","+">>,
      <<"S","h","i","f","t","+","C","t","r","l","+">> }

HotkeySymbols ==
    { <<"h">>, <<"H">>, <<"F","5">>, <<"s","p","a","c","e">>, <<>>, <<"G","P",":","A">> }

\* and controller bindings
PadTexts ==
    { <<"g","p",":","a">>, <<" ","G","P",":"," ","l","b"," ">>,
      <<"G","P",":","D","P","A","D","_","U","P">>, <<"G","P",":">>,
      <<"+","G","P",":","A">> }

HotkeyTexts == {p \o k : p \in HotkeyPrefixes, k \in HotkeySymbols} \cup PadTexts

\* ------------------------------------------------------------ configuration
\* dict order of the actions table of _maybe_trigger_kb / _maybe_trigger_gp
ActionOrder == <<"toggle_all", "stall", "speedflip", "straightdash", "turningdash",
             "emergency", "exit">>
ActionSet == {ActionOrder[i] : i \in DOMAIN ActionOrder}
Features == {"stall", "speedflip", "straightdash", "turningdash"}
HoldActions == {"straightdash", "turningdash"}
Ungated == {"toggle_all", "emergency", "exit"}

\* DEFAULTS["timings"]
DefaultTimings ==
    [stall_click_ms |-> 3, sf_a_hold_ms |-> 80, sf_wait_before_jump_ms |-> 20,
     sf_s_hold_ms |-> 690, sf_d_hold_ms |-> 720, sf_airroll_time_ms |-> 799,
     sf_shift_start_ms |-> 840, sf_shift_duration_ms |-> 130, sf_prejump_ms |-> 20,
     sf_click_down_ms |-> 20, sf_between_jumps_ms |-> 40, sf_post_shift_ms |-> 50,
     sd_click_down_ms |-> 15, sd_between_clicks_ms |-> 25, td_pre_ms |-> 10,
     td_click_down_ms |-> 15, td_between_clicks_ms |-> 25]

\* the same with the S and D hold times exchanged (S held longer than D)
SwappedTimings ==
    [DefaultTimings EXCEPT !.sf_s_hold_ms = 720, !.sf_d_hold_ms = 690]

\* the dash sliders at the top of their ranges (lines 1146-1147, 1149-1151)
SlowDashTimings ==
    [DefaultTimings EXCEPT !.sd_click_down_ms = 60, !.sd_between_clicks_ms = 120,
                           !.td_pre_ms = 60, !.td_click_down_ms = 60,
                           !.td_between_clicks_ms = 120]

\* a timing value that is no number (JSON null in the stored snapshot), for
\* which int() raises TypeError; written as a number outside every slider range
NotInt == -1000000

\* stored snapshots with a negative dash timing: a click time below zero, a
\* gap below zero
NegClickTimings ==
    [DefaultTimings EXCEPT !.sd_click_down_ms = -15, !.td_click_down_ms = -15]
NegGapTimings ==
    [DefaultTimings EXCEPT !.sd_between_clicks_ms = -25, !.td_between_clicks_ms = -25]

\* a stored snapshot whose dash click times are null
NullDashTimings ==
    [DefaultTimings EXCEPT !.sd_click_down_ms = NotInt, !.td_click_down_ms = NotInt]

\* a shorter SpeedFlip, S held longer than D
ShortFlipTimings ==
    [DefaultTimings EXCEPT !.sf_a_hold_ms = 40, !.sf_wait_before_jump_ms = 10,
                           !.sf_s_hold_ms = 600, !.sf_d_hold_ms = 500,
                           !.sf_airroll_time_ms = 650, !.sf_shift_start_ms = 700,
                           !.sf_shift_duration_ms = 100, !.sf_prejump_ms = 10,
                           !.sf_click_down_ms = 10, !.sf_between_jumps_ms = 30,
                           !.sf_post_shift_ms = 25]

\* the Stall slider at the top of its range (line 1129)
LongStallTimings == [DefaultTimings EXCEPT !.stall_click_ms = 50]

\* SpeedFlip settings on both sides of the two waits: the air roll ending
\* after, with and before the longer hold, the shift starting after, with and
\* before the later of the two
ArithTimings ==
    { DefaultTimings, SwappedTimings, ShortFlipTimings,
      [DefaultTimings EXCEPT !.sf_airroll_time_ms = 500],
      [DefaultTimings EXCEPT !.sf_airroll_time_ms = 720],
      [DefaultTimings EXCEPT !.sf_shift_start_ms = 799],
      [DefaultTimings EXCEPT !.sf_shift_start_ms = 0],
      [DefaultTimings EXCEPT !.sf_s_hold_ms = 1500, !.sf_d_hold_ms = 1500],
      [DefaultTimings EXCEPT !.sf_s_hold_ms = 0, !.sf_d_hold_ms = 0,
                             !.sf_airroll_time_ms = 0, !.sf_shift_start_ms = 2000] }

\* binding texts, in the order of ActionOrder
HotkeysOf(seq) ==
    [a \in ActionSet |-> seq[CHOOSE i \in DOMAIN ActionOrder : ActionOrder[i] = a]]

AllOn  == [f \in Features |-> TRUE]
AllOff == [f \in Features |-> FALSE]

Snapshot(g, feats, hk, tm) ==
    [global_enabled |-> g, features |-> feats, hotkeys |-> hk, timings |-> tm]

\* ------------------------------------------------------------------ inputs
\* pynput keys: a KeyCode carries char, a Key prints as "Key.<name>"
KeyH == [char |-> <<"h">>, repr |-> <<"'","h","'">>]
KeyL == [char |-> <<"l">>, repr |-> <<"'","l","'">>]
KeyCtrlL == [char |-> <<>>, repr |-> <<"K","e","y",".","c","t","r","l","_","l">>]

Backends == {"pygame", "xinput"}
\* canonical button name the adapters report
BtnA == <<"A">>

\* the flag settings the settings window applies
GlobalFlags == { <<TRUE, AllOn>>, <<FALSE, AllOn>> }
FeatureFlags == { <<TRUE, AllOn>>, <<TRUE, AllOff>> }
AllFlags == GlobalFlags \cup FeatureFlags

\* The environments explored.  One behaviour stays in one of them: the bindings
\* are the ones loaded at start, the settings window changes the flags and the
\* timings, the user's hands are on the listed keys and pad buttons, the
\* capture window is opened only where rebinding is TRUE and the window's
\* Emergency Stop button is clicked only where panic is TRUE.
\*   pad_hold : both dashes on the pad button A
\*   kb_flip  : SpeedFlip and Exit on H
\*   pad_flip : SpeedFlip on the pad button A, with S held longer than D; Exit on L
\*   kb_hold  : ToggleAll on Ctrl+H, TurningDash on H
\*   pad_shot : Stall on the pad button A (seen by both adapters), Emergency on L
\*   pad_tune, flip_tune, stall_tune : StraightDash, SpeedFlip, Stall on the pad
\*              button A while the timing sliders are moved (and, for
\*              StraightDash, the flags are switched)
\*   kb_quit  : Emergency on L, Exit on H, and the window's close button
\*   pad_wire : StraightDash on button A of an XInput pad that can be unplugged
\*   flip_arith : SpeedFlip on the pad button A under one of ArithTimings
\*   flip_panic : SpeedFlip on H, with the window's Emergency Stop button
\*   hold_panic : StraightDash on the pad button A, with the Emergency Stop button
\*   null_bind : Emergency on L and every other binding empty, blank or "GP:"
\*              with no button; besides the button A the engine is handed the
\*              token "GP:" of a button with the empty name, which no adapter
\*              of the program produces
\*   pad_quit : StraightDash on the pad button A, the key H, and the close button
\*   pad_hat  : Stall on the D-pad's UP of a pygame device with one hat
\*   kb_toggle : ToggleAll on H, no edit in the settings window
\*   hold_err : StraightDash on the pad button A, with stored snapshots that
\*              hold a negative dash timing
\*   turn_err : TurningDash on H, with the same snapshots
\*   hold_boot : StraightDash on the pad button A while the engine still has the
\*              stored snapshot as loaded (ProSuiteGUI.__init__ before line
\*              997), its dash click times null
\*   kb_bare  : ToggleAll on H, TurningDash on Ctrl+H
\*   all_off  : Stall on H, SpeedFlip on L, StraightDash on the pad button A,
\*              under snapshots in which the global flag is off or every
\*              feature flag is
Environments ==
    [pad_hold |->
       [hotkeys |-> HotkeysOf(<< <<>>, <<>>, <<>>, <<"G","P",":","A">>,
                                 <<"g","p",":","a">>, <<>>, <<>> >>),
        flags |-> GlobalFlags,
        timings |-> {DefaultTimings},
        keys |-> {},
        pads |-> {<<"xinput", BtnA>>},
        rebinding |-> FALSE,
        panic |-> FALSE],
     kb_flip |->
       [hotkeys |-> HotkeysOf(<< <<>>, <<>>, <<"h">>, <<>>, <<>>, <<>>, <<"H">> >>),
        flags |-> GlobalFlags,
        timings |-> {DefaultTimings},
        keys |-> {KeyH},
        pads |-> {},
        rebinding |-> FALSE,
        panic |-> FALSE],
     pad_flip |->
       [hotkeys |-> HotkeysOf(<< <<>>, <<>>, <<"g","p",":","A">>, <<>>, <<>>, <<>>,
                                 <<"L">> >>),
        flags |-> FeatureFlags,
        timings |-> {SwappedTimings},
        keys |-> {KeyL},
        pads |-> {<<"pygame", BtnA>>},
        rebinding |-> FALSE,
        panic |-> FALSE],
     kb_hold |->
       [hotkeys |-> HotkeysOf(<< <<"C","t","r","l","+","H">>, <<>>, <<>>, <<>>,
                                 <<"H">>, <<>>, <<>> >>),
        flags |-> GlobalFlags,
        timings |-> {DefaultTimings},
        keys |-> {KeyH, KeyCtrlL},
        pads |-> {},
        rebinding |-> FALSE,
        panic |-> FALSE],
     pad_shot |->
       [hotkeys |-> HotkeysOf(<< <<>>, <<"G","P",":","A">>, <<>>, <<>>, <<>>, <<"l">>,
                                 <<>> >>),
        flags |-> GlobalFlags,
        timings |-> {DefaultTimings},
        keys |-> {KeyL},
        pads |-> {<<"pygame", BtnA>>, <<"xinput", BtnA>>},
        rebinding |-> TRUE,
        panic |-> FALSE],
     pad_tune |->
       [hotkeys |-> HotkeysOf(<< <<>>, <<>>, <<>>, <<"G","P",":","A">>, <<>>, <<>>,
                                 <<>> >>),
        flags |-> AllFlags,
        timings |-> {DefaultTimings, SlowDashTimings},
        keys |-> {},
        pads |-> {<<"xinput", BtnA>>},
        rebinding |-> FALSE,
        panic |-> FALSE],
     flip_tune |->
       [hotkeys |-> HotkeysOf(<< <<>>, <<>>, <<"G","P",":","A">>, <<>>, <<>>, <<>>,
                                 <<>> >>),
        flags |-> { <<TRUE, AllOn>> },
        timings |-> {DefaultTimings, ShortFlipTimings},
        keys |-> {},
        pads |-> {<<"xinput", BtnA>>},
        rebinding |-> FALSE,
        panic |-> FALSE],
     stall_tune |->
       [hotkeys |-> HotkeysOf(<< <<>>, <<"G","P",":","A">>, <<>>, <<>>, <<>>, <<>>,
                                 <<>> >>),
        flags |-> { <<TRUE, AllOn>> },
        timings |-> {DefaultTimings, LongStallTimings},
        keys |-> {},
        pads |-> {<<"xinput", BtnA>>},
        rebinding |-> FALSE,
        panic |-> FALSE],
     pad_quit |->
       [hotkeys |-> HotkeysOf(<< <<>>, <<>>, <<>>, <<"G","P",":","A">>, <<>>, <<>>,
                                 <<>> >>),
        flags |-> GlobalFlags,
        timings |-> {DefaultTimings},
        keys |-> {KeyH},
        pads |-> {<<"xinput", BtnA>>},
        rebinding |-> FALSE,
        panic |-> FALSE],
     pad_hat |->
       [hotkeys |-> HotkeysOf(<< <<>>, <<"G","P",":","D","P","A","D","_","U","P">>, <<>>,
                                 <<>>, <<>>, <<>>, <<>> >>),
        flags |-> GlobalFlags,
        timings |-> {DefaultTimings},
        keys |-> {},
        pads |-> {},
        rebinding |-> TRUE,
        panic |-> FALSE],
     hold_err |->
       [hotkeys |-> HotkeysOf(<< <<>>, <<>>, <<>>, <<"G","P",":","A">>, <<>>, <<>>,
                                 <<>> >>),
        flags |-> { <<TRUE, AllOn>> },
        timings |-> {DefaultTimings, NegClickTimings, NegGapTimings},
        keys |-> {},
        pads |-> {<<"xinput", BtnA>>},
        rebinding |-> FALSE,
        panic |-> FALSE],
     turn_err |->
       [hotkeys |-> HotkeysOf(<< <<>>, <<>>, <<>>, <<>>, <<"H">>, <<>>, <<>> >>),
        flags |-> { <<TRUE, AllOn>> },
        timings |-> {DefaultTimings, NegClickTimings, NegGapTimings},
        keys |-> {KeyH},
        pads |-> {},
        rebinding |-> FALSE,
        panic |-> FALSE],
     hold_boot |->
       [hotkeys |-> HotkeysOf(<< <<>>, <<>>, <<>>, <<"G","P",":","A">>, <<>>, <<>>,
                                 <<>> >>),
        flags |-> { <<TRUE, AllOn>> },
        timings |-> {NullDashTimings},
        keys |-> {},
        pads |-> {<<"xinput", BtnA>>},
        rebinding |-> FALSE,
        panic |-> FALSE],
     kb_bare |->
       [hotkeys |-> HotkeysOf(<< <<"H">>, <<>>, <<>>, <<>>,
                                 <<"C","t","r","l","+","H">>, <<>>, <<>> >>),
        flags |-> GlobalFlags,
        timings |-> {DefaultTimings},
        keys |-> {KeyH, KeyCtrlL},
        pads |-> {},
        rebinding |-> FALSE,
        panic |-> FALSE],
     all_off |->
       [hotkeys |-> HotkeysOf(<< <<>>, <<"H">>, <<"L">>, <<"G","P",":","A">>, <<>>, <<>>,
                                 <<>> >>),
        flags |-> { <<TRUE, AllOff>>, <<FALSE, AllOn>> },
        timings |-> {DefaultTimings},
        keys |-> {KeyH, KeyL},
        pads |-> {<<"xinput", BtnA>>},
        rebinding |-> FALSE,
        panic |-> FALSE],
     kb_toggle |->
       [hotkeys |-> HotkeysOf(<< <<"H">>, <<>>, <<>>, <<>>, <<>>, <<>>, <<>> >>),
        flags |-> { <<TRUE, AllOn>> },
        timings |-> {DefaultTimings},
        keys |-> {KeyH},
        pads |-> {},
        rebinding |-> FALSE,
        panic |-> FALSE],
     kb_quit |->
       [hotkeys |-> HotkeysOf(<< <<>>, <<>>, <<>>, <<>>, <<>>, <<"L">>, <<"H">> >>),
        flags |-> GlobalFlags,
        timings |-> {DefaultTimings},
        keys |-> {KeyH, KeyL},
        pads |-> {},
        rebinding |-> FALSE,
        panic |-> FALSE],
     pad_wire |->
       [hotkeys |-> HotkeysOf(<< <<>>, <<>>, <<>>, <<"G","P",":","A">>, <<>>, <<>>,
                                 <<>> >>),
        flags |-> { <<TRUE, AllOn>> },
        timings |-> {DefaultTimings},
        keys |-> {},
        pads |-> {<<"xinput", BtnA>>},
        rebinding |-> FALSE,
        panic |-> FALSE],
     flip_arith |->
       [hotkeys |-> HotkeysOf(<< <<>>, <<>>, <<"G","P",":","A">>, <<>>, <<>>, <<>>,
                                 <<>> >>),
        flags |-> { <<TRUE, AllOn>> },
        timings |-> ArithTimings,
        keys |-> {},
        pads |-> {<<"xinput", BtnA>>},
        rebinding |-> FALSE,
        panic |-> FALSE],
     flip_panic |->
       [hotkeys |-> HotkeysOf(<< <<>>, <<>>, <<"h">>, <<>>, <<>>, <<>>, <<>> >>),
        flags |-> GlobalFlags,
        timings |-> {DefaultTimings},
        keys |-> {KeyH},
        pads |-> {},
        rebinding |-> FALSE,
        panic |-> TRUE],
     hold_panic |->
       [hotkeys |-> HotkeysOf(<< <<>>, <<>>, <<>>, <<"G","P",":","A">>, <<>>, <<>>,
                                 <<>> >>),
        flags |-> { <<TRUE, AllOn>> },
        timings |-> {DefaultTimings},
        keys |-> {},
        pads |-> {<<"xinput", BtnA>>},
        rebinding |-> FALSE,
        panic |-> TRUE],
     null_bind |->
       [hotkeys |-> HotkeysOf(<< <<>>, <<" ", " ">>, <<"G","P",":">>,
                                 <<" ","g","p",":"," ">>, <<"\t">>, <<"L">>,
                                 <<"G","P",":"," "," ">> >>),
        flags |-> GlobalFlags,
        timings |-> {DefaultTimings},
        keys |-> {KeyH, KeyL},
        pads |-> {<<"xinput", BtnA>>, <<"pygame", <<>> >>},
        rebinding |-> FALSE,
        panic |-> FALSE]]

EnvNames == DOMAIN Environments

\* the environments of the main specification
CoreEnvs == {"pad_hold", "kb_flip", "pad_flip", "kb_hold", "pad_shot"}

\* the configuration snapshots the settings window applies in environment e
Snapshots(e) ==
    { Snapshot(fl[1], fl[2], Environments[e].hotkeys, tm) :
        fl \in Environments[e].flags, tm \in Environments[e].timings }

\* The pure functions of a text are tabulated over the texts in use, so that
\* each is computed once for each text and not again in every step.
RECURSIVE ParsedTable(_)
ParsedTable(S) ==
    IF S = {} THEN <<>>
    ELSE LET x == CHOOSE y \in S : TRUE IN (x :> parse_hotkey(x)) @@ ParsedTable(S \ {x})

\* every binding text in use, parsed
BindingTexts == UNION {{Environments[e].hotkeys[a] : a \in ActionSet} : e \in EnvNames}
ParsedText == ParsedTable(BindingTexts)

VARIABLES
    env,              \* the environment of this behaviour (see Environments)
    state,            \* MacroEngine.state: the configuration snapshot
    kb_pressed,       \* MacroEngine._kb_pressed
    kb_mods,          \* MacroEngine._kb_mods
    gp_pressed,       \* MacroEngine._gp_pressed
    kill,             \* MacroEngine._kill
    listener,         \* MacroEngine._listener and the pynput thread behind it
    running_hold,     \* MacroEngine._running_hold
    capture_mode,     \* MacroEngine._capture_mode (and the GUI's _capture_target)
    adapter_pressed,  \* _pressed of each controller manager
    tasks,            \* the threads started by the router and alive now, as a bag
    keys_down,        \* synthetic keys down at the OS after the SendInput calls so far
    mouse_down,       \* right mouse button down at the OS
    exited,           \* os._exit(0) has run
    last,             \* what the last step was: a routed press, the end of a run, or neither
    pad,              \* the XInput pad 0: button A held (down), the pad answering
                      \* XInputGetState (on), and _prev_buttons[0] (prev); the
                      \* XInput manager: the place its thread is at in _run (run),
                      \* its _stop event (stop), the list stop() walks (snap) and
                      \* the last callback it made for GP:A (sent); button A
                      \* went down while the pad was answering and has been
                      \* down, on an answering pad, ever since (fresh)
    gui               \* the window and the telemetry: the window is open (open), the
                      \* "telemetry" part of ProSuiteGUI.state (tel), var_telemetry
                      \* (var), the "telemetry" part of the registry value (reg), the
                      \* calendar day (today), and the reports posted so far

vars == <<env, state, kb_pressed, kb_mods, gp_pressed, kill, listener, running_hold,
          capture_mode, adapter_pressed, tasks, keys_down, mouse_down, exited, last, pad,
          gui>>

\* ------------------------------------------------------------------ tasks
NoTimings == <<>>

FirstPc(a) ==
    CASE a = "toggle_all" -> "tg0"
      [] a = "stall"      -> "st0"
      [] a = "speedflip"  -> "sf0"
      [] a \in HoldActions -> "h0"
      [] a = "emergency"  -> "e0"
      [] a = "exit"       -> "x0"
      [] a = "close"      -> "q0"

\* threading.Thread(target=fn, daemon=True).start() in the router (by = "router"),
\* or a call of the action on the window's own thread (by = "gui")
NewTask(a, by) ==
    [act |-> a, pc |-> FirstPc(a), by |-> by,
     kind |-> "kb", key_req |-> <<>>, tm |-> NoTimings,
     slept |-> 0,       \* milliseconds of the last time.sleep of this run
     on |-> FALSE,      \* the local on of _act_toggle_all
     held |-> {},       \* keys this run pressed and has not released itself
     mheld |-> FALSE,   \* this run pressed the mouse button and has not released it
     emg |-> "no",      \* the kill flag was set during this run ("yes"), inside an
                        \* output cycle of a hold loop ("cycle"), or not ("no")
     err |-> FALSE]     \* an exception was raised in this run

\* the threads alive now; threads are anonymous, two in the same position are
\* two copies of one record
Threads == BagToSet(tasks)
One(r) == SetToBag({r})
Put(r, r2) == tasks' = (tasks (-) One(r)) (+) One(r2)

\* the window's thread is in its event loop, not inside a callback
GuiIdle == \A r \in Threads : r.by # "gui"

NoEvent == [op |-> "none"]
\* the record of a run's end: what it held before its last statements (before),
\* what it leaves held (held, mheld)
EndOf(tk, before) ==
    [op |-> "end", act |-> tk.act, before |-> before, held |-> tk.held,
     mheld |-> tk.mheld, emg |-> tk.emg, err |-> tk.err]

\* ------------------------------------------------------------ synthetic input
KeyDown(k) == <<"key_down", k>>
KeyUp(k) == <<"key_up", k>>
MouseRight(down) == <<"mouse_right", down>>

\* one SendInput call, on the OS state and on the calling run's own record
EmitOne(o, op) ==
    CASE op[1] = "key_down" ->
           [o EXCEPT !.keys = @ \cup {op[2]}, !.held = @ \cup {op[2]}]
      [] op[1] = "key_up" ->
           [o EXCEPT !.keys = @ \ {op[2]}, !.held = @ \ {op[2]}]
      [] op[1] = "mouse_right" ->
           [o EXCEPT !.mouse = op[2], !.mheld = op[2]]

RECURSIVE EmitAll(_, _)
EmitAll(o, ops) == IF ops = <<>> THEN o ELSE EmitAll(EmitOne(o, Head(ops)), Tail(ops))

\* thread r issues ops and goes to pc
Emit(r, ops, pc) ==
    LET o == EmitAll([keys |-> keys_down, mouse |-> mouse_down,
                      held |-> r.held, mheld |-> r.mheld], ops)
    IN  /\ keys_down' = o.keys
        /\ mouse_down' = o.mouse
        /\ Put(r, [r EXCEPT !.pc = pc, !.held = o.held, !.mheld = o.mheld])

\* thread r issues ops, sleeps ms milliseconds and goes to pc
EmitSleep(r, ops, ms, pc) ==
    LET o == EmitAll([keys |-> keys_down, mouse |-> mouse_down,
                      held |-> r.held, mheld |-> r.mheld], ops)
    IN  /\ keys_down' = o.keys
        /\ mouse_down' = o.mouse
        /\ Put(r, [r EXCEPT !.pc = pc, !.slept = ms, !.held = o.held, !.mheld = o.mheld])

\* thread r issues ops and ends
EmitEnd(r, ops) ==
    LET o == EmitAll([keys |-> keys_down, mouse |-> mouse_down,
                      held |-> r.held, mheld |-> r.mheld], ops)
    IN  /\ keys_down' = o.keys
        /\ mouse_down' = o.mouse
        /\ tasks' = tasks (-) One(r)
        /\ last' = EndOf([r EXCEPT !.held = o.held, !.mheld = o.mheld], r.held)

\* _release_all_outputs
ReleaseAllOps ==
    << KeyUp("W"), KeyUp("A"), KeyUp("S"), KeyUp("D"), KeyUp("Q"), KeyUp("E"),
       KeyUp("I"), KeyUp("LShift"), MouseRight(FALSE) >>

\* ------------------------------------------------------------ token unifier
_key_name(key) ==
    IF key.char # <<>> THEN str_upper(key.char)
    ELSE str_upper(str_remove(key.repr, <<"K","e","y",".">>))

\* the modifiers a key name stands for in _update_kb_mods
ModsOfName(name) ==
    LET n == str_upper(name) IN
    (IF str_contains(n, CTRL) \/ str_contains(n, CONTROL) THEN {CTRL} ELSE {})
    \cup (IF str_contains(n, ALT) THEN {ALT} ELSE {})
    \cup (IF str_contains(n, SHIFT) THEN {SHIFT} ELSE {})
    \cup (IF \E x \in {WIN, SUPER, META, CMD} : str_contains(n, x) THEN {WIN} ELSE {})

\* every key in use, named, and the modifiers each name stands for
RECURSIVE KeyNameTable(_)
KeyNameTable(S) ==
    IF S = {} THEN <<>>
    ELSE LET x == CHOOSE y \in S : TRUE IN (x :> _key_name(x)) @@ KeyNameTable(S \ {x})

RECURSIVE ModsTable(_)
ModsTable(S) ==
    IF S = {} THEN <<>>
    ELSE LET x == CHOOSE y \in S : TRUE IN (x :> ModsOfName(x)) @@ ModsTable(S \ {x})

AllKeys == UNION {Environments[e].keys : e \in EnvNames}
KeyNameOf == KeyNameTable(AllKeys)
ModsOf == ModsTable({KeyNameOf[k] : k \in AllKeys})

_update_kb_mods(mods, name, down) ==
    IF down THEN mods \cup ModsOf[name] ELSE mods \ ModsOf[name]

GpToken(btn) == str_upper(GpPrefix \o btn)

\* _hold_active looking only at the keyboard set: a pad trigger counts as held
_hold_active_KbOnly(kind, key_or_btn) ==
    IF kind = "kb" THEN str_upper(key_or_btn) \in kb_pressed
    ELSE TRUE

\* MacroEngine._hold_active
_hold_active(kind, key_or_btn) ==
    IF kind = "kb" THEN str_upper(key_or_btn) \in kb_pressed
    ELSE GpToken(key_or_btn) \in gp_pressed

\* ------------------------------------------------------------ binding router
\* the keyboard test without its comparison of the modifiers
KbMatch_AnyMods(a, name, mods) ==
    LET h == ParsedText[state.hotkeys[a]] IN
    /\ h.kind = "kb" /\ h.key # <<>>
    /\ str_upper(name) = str_upper(h.key)

KbMatch(a, name, mods) ==
    LET h == ParsedText[state.hotkeys[a]] IN   \* parse_hotkey(hk.get(action, ""))
    /\ h.kind = "kb" /\ h.key # <<>>
    /\ str_upper(name) = str_upper(h.key)
    /\ h.mods \subseteq mods

\* the controller test without its 'not btn' guard
GpMatch_NoGuard(a, tok) ==
    LET h == ParsedText[state.hotkeys[a]] IN
    /\ h.kind = "gp"
    /\ tok = GpToken(h.key)

GpMatch(a, tok) ==
    LET h == ParsedText[state.hotkeys[a]] IN   \* parse_hotkey(hk.get(action, ""))
    /\ h.kind = "gp" /\ h.key # <<>>
    /\ tok = GpToken(h.key)

\* a for loop that goes on after a match and so acts on the last one
FirstMatch_Last(matching) == ActionOrder[CHOOSE i \in matching : \A j \in matching : i >= j]

\* the action the for loop stops at: the first one, in table order, that matches
FirstMatch(matching) == ActionOrder[CHOOSE i \in matching : \A j \in matching : i <= j]

\* the body of the for loop without the test of global_enabled
Decide_NoGate(matching) ==
    IF matching = {} THEN [res |-> "nomatch", act |-> "none"]
    ELSE LET a == FirstMatch(matching) IN
         IF a \in HoldActions /\ running_hold[a] THEN [res |-> "running", act |-> a]
         ELSE [res |-> "spawn", act |-> a]

\* the body of the for loop with the test of global_enabled applied to every action
Decide_GateAll(matching) ==
    IF matching = {} THEN [res |-> "nomatch", act |-> "none"]
    ELSE LET a == FirstMatch(matching) IN
         IF ~state.global_enabled THEN [res |-> "gated", act |-> a]
         ELSE IF a \in HoldActions /\ running_hold[a] THEN [res |-> "running", act |-> a]
         ELSE [res |-> "spawn", act |-> a]

\* the body of the for loop from the first match on: gate, re-entrancy guard, start
Decide(matching) ==
    IF matching = {} THEN [res |-> "nomatch", act |-> "none"]
    ELSE LET a == FirstMatch(matching) IN
         IF a \notin Ungated /\ ~state.global_enabled THEN [res |-> "gated", act |-> a]
         ELSE IF a \in HoldActions /\ running_hold[a] THEN [res |-> "running", act |-> a]
         ELSE [res |-> "spawn", act |-> a]

\* the keyboard router without its test of capture mode
_maybe_trigger_kb_NoCapture(name, mods) ==
    Decide({i \in DOMAIN ActionOrder : KbMatch(ActionOrder[i], name, mods)})

\* MacroEngine._maybe_trigger_kb
_maybe_trigger_kb(name, mods) ==
    IF capture_mode THEN [res |-> "capture", act |-> "none"]
    ELSE Decide({i \in DOMAIN ActionOrder : KbMatch(ActionOrder[i], name, mods)})

_maybe_trigger_gp(tok) ==
    IF capture_mode THEN [res |-> "capture", act |-> "none"]
    ELSE Decide({i \in DOMAIN ActionOrder : GpMatch(ActionOrder[i], tok)})

\* the effect of a routing decision on the threads
Dispatch(d) ==
    IF d.res = "spawn"
    THEN /\ BagCardinality(tasks) < MaxTasks
         /\ tasks' = tasks (+) One(NewTask(d.act, "router"))
    ELSE UNCHANGED tasks

\* the action of the thread this step starts, "none" if it starts no thread
Started ==
    LET S == {r \in BagToSet(tasks') : CopiesIn(r, tasks') > CopiesIn(r, tasks)}
    IN  IF S = {} THEN "none" ELSE (CHOOSE r \in S : TRUE).act

\* the record of a press: the token, the action the router stopped at, what it
\* decided and the action of the thread that was started
Routed(src, tok, d, started) ==
    [op |-> "press", src |-> src, tok |-> tok, res |-> d.res, act |-> d.act,
     started |-> started]

\* ------------------------------------------------------------ telemetry
\* the calendar days explored, and the value a count of reports stops at
MaxDay == 3
MaxPosts == 2
MaxLaunches == 2
\* the callbacks root.after holds at most
MaxAfter == 2
Days == 1..MaxDay

\* DEFAULTS["telemetry"]; install_id is TRUE for a non-empty id, last_daily_ymd
\* is 0 for the empty text
TelDefaults ==
    [enabled |-> FALSE, install_id |-> FALSE, installed_sent |-> FALSE, last_daily_ymd |-> 0]

\* ProSuiteGUI.__init__, lines 963-970: a missing install id is made and saved
EnsureId(g) ==
    IF g.tel.install_id THEN g
    ELSE LET t == [g.tel EXCEPT !.install_id = TRUE, !.installed_sent = FALSE]
         IN  [g EXCEPT !.tel = t, !.reg = t]

\* the state after the first launch on a machine whose registry has no value yet
FirstLaunch ==
    LET t == [TelDefaults EXCEPT !.install_id = TRUE] IN
    [open |-> TRUE, tel |-> t, var |-> FALSE, reg |-> t, today |-> 1,
     installs |-> 0, dailies |-> [d \in Days |-> 0], off |-> FALSE, launches |-> 1,
     after |-> <<>>,    \* the values of the _do callbacks root.after has queued
     odd |-> FALSE]     \* the number of ToggleAll runs that have ended is odd

\* _read_ui_state that takes the telemetry fields from DEFAULTS, the install id
\* apart
_read_ui_state_Defaults(g) ==
    [TelDefaults EXCEPT !.enabled = g.var, !.install_id = g.tel.install_id]

\* ProSuiteGUI._read_ui_state, the "telemetry" part
_read_ui_state(g) ==
    [enabled |-> g.var, install_id |-> g.tel.install_id,
     installed_sent |-> g.tel.installed_sent, last_daily_ymd |-> g.tel.last_daily_ymd]

\* ProSuiteGUI._sync_engine
_sync_engine(g) == [g EXCEPT !.tel = _read_ui_state(g)]

\* Telemetry._post started on a thread: one more report of the kind
PostInstall(g) ==
    [g EXCEPT !.installs = IF @ < MaxPosts THEN @ + 1 ELSE @,
              !.off = @ \/ ~g.var \/ ~g.tel.enabled]

PostDaily(g) ==
    [g EXCEPT !.dailies[g.today] = IF @ < MaxPosts THEN @ + 1 ELSE @,
              !.off = @ \/ ~g.var \/ ~g.tel.enabled]

\* Telemetry.startup_tick
startup_tick(g) ==
    IF ~g.tel.enabled THEN g
    ELSE LET g0 == EnsureId(g)                      \* ensure_install_id
             g1 == IF ~g0.tel.installed_sent
                   THEN LET t == [g0.tel EXCEPT !.installed_sent = TRUE]
                        IN  [PostInstall(g0) EXCEPT !.tel = t, !.reg = t]
                   ELSE g0
             g2 == IF g1.tel.last_daily_ymd # g1.today
                   THEN LET t == [g1.tel EXCEPT !.last_daily_ymd = g1.today]
                        IN  [PostDaily(g1) EXCEPT !.tel = t, !.reg = t]
                   ELSE g1
         IN  g2

\* ------------------------------------------------------------ initial state
\* the state after MacroEngine.__init__ and start_keyboard_listener, in one of
\* the environments E
Start(E) ==
    /\ env \in E
    /\ state \in Snapshots(env)
    /\ kb_pressed = {} /\ kb_mods = {} /\ gp_pressed = {}
    /\ kill = FALSE
    /\ listener = "running"                 \* start_keyboard_listener has run
    /\ running_hold = [a \in HoldActions |-> FALSE]
    /\ capture_mode = FALSE
    /\ adapter_pressed = [b \in Backends |-> {}]
    /\ tasks = EmptyBag
    /\ keys_down = {} /\ mouse_down = FALSE
    /\ exited = FALSE
    /\ last = NoEvent
    /\ pad = [down |-> FALSE, on |-> TRUE, prev |-> {},
              hat |-> <<0, 0>>,            \* _ensure_joysticks: _hat_state[i] = (0, 0)
              run |-> "p0", stop |-> FALSE, snap |-> {}, sent |-> "none",
              fresh |-> FALSE]
    /\ gui = FirstLaunch

Init == Start(CoreEnvs)

\* ------------------------------------------------------------ input handlers
\* MacroEngine._on_press, called by the pynput listener thread; returning False
\* from a pynput callback stops the listener
_on_press(key) ==
    /\ ~exited /\ listener = "running"
    /\ LET name == KeyNameOf[key] IN
       IF kill
       THEN /\ listener' = "stopped"
            /\ last' = Routed("kb", name, [res |-> "kill", act |-> "none"], "none")
            /\ UNCHANGED <<kb_pressed, kb_mods, tasks>>
       ELSE LET mods == _update_kb_mods(kb_mods, name, TRUE)
                d == _maybe_trigger_kb(name, mods)
            IN  /\ name # <<>>
                /\ kb_mods' = mods
                /\ kb_pressed' = IF name \notin MOD_NAMES THEN kb_pressed \cup {name}
                                 ELSE kb_pressed
                /\ Dispatch(d)
                /\ last' = Routed("kb", name, d, Started)
                /\ UNCHANGED listener
    /\ UNCHANGED <<env, gui, pad, state, gp_pressed, kill, running_hold, capture_mode, adapter_pressed,
                   keys_down, mouse_down, exited>>

\* MacroEngine._on_release
_on_release(key) ==
    /\ ~exited /\ listener = "running"
    /\ LET name == KeyNameOf[key] IN
       /\ name # <<>>
       /\ kb_mods' = _update_kb_mods(kb_mods, name, FALSE)
       /\ kb_pressed' = kb_pressed \ {name}
    /\ last' = NoEvent
    /\ UNCHANGED <<env, gui, pad, state, gp_pressed, kill, listener, running_hold, capture_mode,
                   adapter_pressed, tasks, keys_down, mouse_down, exited>>

\* In the specifications other than SpecPad the adapters' polling loops are
\* left out: a press or release found by a loop is a step of its own.
\* on_gamepad_press without its test of the kill flag
_emit_press_NoKill(b, btn) ==
    LET tok == GpToken(btn) IN
    /\ ~exited
    /\ tok \notin adapter_pressed[b]
    /\ adapter_pressed' = [adapter_pressed EXCEPT ![b] = @ \cup {tok}]
    /\ IF capture_mode
       THEN \* the GUI keeps the token for the capture window
            /\ last' = Routed("gp", tok, [res |-> "capture", act |-> "none"], "none")
            /\ UNCHANGED <<gp_pressed, tasks>>
       ELSE LET d == _maybe_trigger_gp(str_upper(tok)) IN
            /\ gp_pressed' = gp_pressed \cup {str_upper(tok)}
            /\ Dispatch(d)
            /\ last' = Routed("gp", tok, d, Started)
    /\ UNCHANGED <<env, gui, state, kb_pressed, kb_mods, kill, listener, running_hold, capture_mode,
                   keys_down, mouse_down, exited>>

\* <adapter>._emit_press, then ProSuiteGUI._on_gp_press, then MacroEngine.on_gamepad_press
_emit_press(b, btn) ==
    LET tok == GpToken(btn) IN
    /\ ~exited
    /\ tok \notin adapter_pressed[b]
    /\ adapter_pressed' = [adapter_pressed EXCEPT ![b] = @ \cup {tok}]
    /\ IF capture_mode
       THEN \* the GUI keeps the token for the capture window
            /\ last' = Routed("gp", tok, [res |-> "capture", act |-> "none"], "none")
            /\ UNCHANGED <<gp_pressed, tasks>>
       ELSE IF kill
       THEN /\ last' = Routed("gp", tok, [res |-> "kill", act |-> "none"], "none")
            /\ UNCHANGED <<gp_pressed, tasks>>
       ELSE LET d == _maybe_trigger_gp(str_upper(tok)) IN
            /\ gp_pressed' = gp_pressed \cup {str_upper(tok)}
            /\ Dispatch(d)
            /\ last' = Routed("gp", tok, d, Started)
    /\ UNCHANGED <<env, gui, state, kb_pressed, kb_mods, kill, listener, running_hold, capture_mode,
                   keys_down, mouse_down, exited>>

\* <adapter>._emit_release, then ProSuiteGUI._on_gp_release, then on_gamepad_release
_emit_release(b, btn) ==
    LET tok == GpToken(btn) IN
    /\ ~exited
    /\ tok \in adapter_pressed[b]
    /\ adapter_pressed' = [adapter_pressed EXCEPT ![b] = @ \ {tok}]
    /\ gp_pressed' = gp_pressed \ {str_upper(tok)}
    /\ last' = NoEvent
    /\ UNCHANGED <<env, gui, state, kb_pressed, kb_mods, kill, listener, running_hold, capture_mode,
                   tasks, keys_down, mouse_down, exited>>

\* ------------------------------------------------------------ the hat of a pygame device
DPAD_UP    == <<"D","P","A","D","_","U","P">>
DPAD_DOWN  == <<"D","P","A","D","_","D","O","W","N">>
DPAD_RIGHT == <<"D","P","A","D","_","R","I","G","H","T">>
DPAD_LEFT  == <<"D","P","A","D","_","L","E","F","T">>

\* the values of a JOYHATMOTION event: (x, y)
HatValues == {-1, 0, 1} \X {-1, 0, 1}

\* dirs(v) in _handle_hat
dirs(v) ==
    (IF v[2] = 1 THEN {DPAD_UP} ELSE {})
    \cup (IF v[2] = -1 THEN {DPAD_DOWN} ELSE {})
    \cup (IF v[1] = 1 THEN {DPAD_RIGHT} ELSE {})
    \cup (IF v[1] = -1 THEN {DPAD_LEFT} ELSE {})

\* the token _emit_press and _emit_release make of each direction,
\* f"GP:{btn}".upper(), and tok.upper() of on_gamepad_press and
\* on_gamepad_release, each computed once
DPadDirs == {DPAD_UP, DPAD_DOWN, DPAD_RIGHT, DPAD_LEFT}
DPadTok ==
    (DPAD_UP :> GpToken(DPAD_UP)) @@ (DPAD_DOWN :> GpToken(DPAD_DOWN))
    @@ (DPAD_RIGHT :> GpToken(DPAD_RIGHT)) @@ (DPAD_LEFT :> GpToken(DPAD_LEFT))
DPadTokens == {DPadTok[d] : d \in DPadDirs}
DPadUpper ==
    (DPadTok[DPAD_UP] :> str_upper(DPadTok[DPAD_UP]))
    @@ (DPadTok[DPAD_DOWN] :> str_upper(DPadTok[DPAD_DOWN]))
    @@ (DPadTok[DPAD_RIGHT] :> str_upper(DPadTok[DPAD_RIGHT]))
    @@ (DPadTok[DPAD_LEFT] :> str_upper(DPadTok[DPAD_LEFT]))

\* the orders a for loop can take the members of a set of at most two in
Orders(S) ==
    IF S = {} THEN {<<>>}
    ELSE {<<x>> \o (IF S \ {x} = {} THEN <<>> ELSE <<CHOOSE y \in S \ {x} : TRUE>>) : x \in S}

\* the two for loops of _handle_hat the other way round
HatCalls_PressFirst(rel, prs) ==
    [i \in 1..Len(prs) |-> <<"press", prs[i]>>] \o [i \in 1..Len(rel) |-> <<"release", rel[i]>>]

\* the calls the two for loops of _handle_hat make, in order
HatCalls(rel, prs) ==
    [i \in 1..Len(rel) |-> <<"release", rel[i]>>] \o [i \in 1..Len(prs) |-> <<"press", prs[i]>>]

\* the calls of HatCalls that get past the first test of _emit_release and of
\* _emit_press: a release of a token in the adapter's set ap, a press of one
\* that is not there once the releases are done
HatPassed(ap, calls) ==
    LET gone == {DPadTok[calls[i][2]] : i \in {k \in DOMAIN calls : calls[k][1] = "release"}}
        Passes(c) == IF c[1] = "release" THEN DPadTok[c[2]] \in ap
                     ELSE DPadTok[c[2]] \notin ap \ gone
        kept == SelectSeq(calls, Passes)
    IN  [i \in DOMAIN kept |-> <<kept[i][1], DPadTok[kept[i][2]]>>]

\* the tokens of the calls of one kind in a sequence of calls
TokensOf(kind, evs) == {evs[i][2] : i \in {k \in DOMAIN evs : evs[k][1] = kind}}

\* the threads the router starts for the presses of evs, one after the other
HatStarted(evs) ==
    LET Starts(c) == c[1] = "press" /\ _maybe_trigger_gp(DPadUpper[c[2]]).res = "spawn"
        sp == SelectSeq(evs, Starts)
    IN  [i \in DOMAIN sp |-> NewTask(_maybe_trigger_gp(DPadUpper[sp[i][2]]).act, "router")]

\* PygameControllerManager._handle_hat for the device's one hat, called by the
\* adapter's thread on a JOYHATMOTION event; each call of _emit_release and
\* _emit_press goes on into ProSuiteGUI._on_gp_release or _on_gp_press and
\* MacroEngine.on_gamepad_release or on_gamepad_press
_handle_hat(value) ==
    /\ ~exited
    /\ \E rel \in Orders(dirs(pad.hat) \ dirs(value)),
          prs \in Orders(dirs(value) \ dirs(pad.hat)) :
          \E evs \in {HatPassed(adapter_pressed["pygame"], HatCalls(rel, prs))} :
          \E new \in {IF capture_mode \/ kill THEN <<>> ELSE HatStarted(evs)} :
              /\ BagCardinality(tasks) + Len(new) <= MaxTasks
              /\ pad' = [pad EXCEPT !.hat = value]
              /\ adapter_pressed' =
                    [adapter_pressed EXCEPT !["pygame"] =
                        (@ \ TokensOf("release", evs)) \cup TokensOf("press", evs)]
              /\ gp_pressed' =
                    (gp_pressed \ {DPadUpper[t] : t \in TokensOf("release", evs)})
                    \cup (IF capture_mode \/ kill THEN {}
                          ELSE {DPadUpper[t] : t \in TokensOf("press", evs)})
              /\ tasks' = IF new = <<>> THEN tasks
                          ELSE IF Len(new) = 1 THEN tasks (+) One(new[1])
                          ELSE tasks (+) One(new[1]) (+) One(new[2])
              /\ last' = [op |-> "hat", prev |-> pad.hat, value |-> value, calls |-> evs]
    /\ UNCHANGED <<env, gui, state, kb_pressed, kb_mods, kill, listener, running_hold, capture_mode,
                   keys_down, mouse_down, exited>>

\* the user's thumb on button A of the pad
PadButton(d) ==
    /\ ~exited /\ pad.down # d
    /\ pad' = [pad EXCEPT !.down = d, !.fresh = d /\ pad.on]
    /\ last' = NoEvent
    /\ UNCHANGED <<env, gui, state, kb_pressed, kb_mods, gp_pressed, kill, listener, running_hold,
                   capture_mode, adapter_pressed, tasks, keys_down, mouse_down, exited>>

\* the pad is unplugged or switched off (XInputGetState fails), or is back
PadPlug(on) ==
    /\ ~exited /\ pad.on # on
    /\ pad' = [pad EXCEPT !.on = on, !.fresh = FALSE]
    /\ last' = NoEvent
    /\ UNCHANGED <<env, gui, state, kb_pressed, kb_mods, gp_pressed, kill, listener, running_hold,
                   capture_mode, adapter_pressed, tasks, keys_down, mouse_down, exited>>

\* one iteration of the while loop of XInputControllerManager._run, for pad 0
\* and the mask of button A
XInputPoll ==
    LET tok == GpToken(BtnA)
        buttons == IF pad.down THEN {BtnA} ELSE {}          \* st.Gamepad.wButtons
        changed == (buttons \ pad.prev) \cup (pad.prev \ buttons)
    IN  /\ ~exited
        /\ IF pad.on                                        \* res == 0
           THEN /\ pad' = [pad EXCEPT !.prev = buttons]
                /\ IF BtnA \in changed /\ BtnA \in buttons /\ tok \notin adapter_pressed["xinput"]
                   THEN _emit_press("xinput", BtnA)
                   ELSE IF BtnA \in changed /\ BtnA \notin buttons
                           /\ tok \in adapter_pressed["xinput"]
                   THEN _emit_release("xinput", BtnA)
                   ELSE /\ last' = NoEvent
                        /\ UNCHANGED <<env, gui, state, kb_pressed, kb_mods, gp_pressed, kill,
                                       listener, running_hold, capture_mode,
                                       adapter_pressed, tasks, keys_down, mouse_down, exited>>
           ELSE /\ pad' = [pad EXCEPT !.prev = {}]          \* self._prev_buttons[i] = 0
                /\ last' = NoEvent
                /\ UNCHANGED <<env, gui, state, kb_pressed, kb_mods, gp_pressed, kill, listener,
                               running_hold, capture_mode, adapter_pressed, tasks,
                               keys_down, mouse_down, exited>>

\* parse_hotkey applied to a binding text, format_hotkey to the trigger it
\* gives, and parse_hotkey to the formatted text
Reformat(raw) ==
    LET t == parse_hotkey(raw)
        text == format_hotkey(t.mods, t.key)
    IN  /\ last' = [op |-> "format", raw |-> raw, t |-> t, text |-> text,
                    back |-> parse_hotkey(text)]
        /\ UNCHANGED <<env, gui, pad, state, kb_pressed, kb_mods, gp_pressed, kill, listener,
                       running_hold, capture_mode, adapter_pressed, tasks, keys_down,
                       mouse_down, exited>>

\* MacroEngine.apply_state, called by ProSuiteGUI._sync_engine
apply_state(st) ==
    /\ ~exited /\ GuiIdle
    /\ st # state                           \* the widgets call back when a value changes
    /\ state' = st
    /\ last' = NoEvent
    /\ UNCHANGED <<env, gui, pad, kb_pressed, kb_mods, gp_pressed, kill, listener, running_hold,
                   capture_mode, adapter_pressed, tasks, keys_down, mouse_down, exited>>

\* MacroEngine.set_capture_mode, called by _capture_hotkey (True) and _close_capture (False)
set_capture_mode(on) ==
    /\ ~exited /\ GuiIdle /\ Environments[env].rebinding
    /\ capture_mode # on
    /\ capture_mode' = on
    /\ last' = NoEvent
    /\ UNCHANGED <<env, gui, pad, state, kb_pressed, kb_mods, gp_pressed, kill, listener, running_hold,
                   adapter_pressed, tasks, keys_down, mouse_down, exited>>

\* ProSuiteGUI._emergency, the command of the two Emergency Stop buttons: the
\* window's thread runs _act_emergency itself
_emergency ==
    /\ ~exited /\ GuiIdle /\ Environments[env].panic
    /\ BagCardinality(tasks) < MaxTasks
    /\ tasks' = tasks (+) One(NewTask("emergency", "gui"))
    /\ last' = NoEvent
    /\ UNCHANGED <<env, gui, pad, state, kb_pressed, kb_mods, gp_pressed, kill, listener, running_hold,
                   capture_mode, adapter_pressed, keys_down, mouse_down, exited>>

\* ProSuiteGUI._on_close, the handler of WM_DELETE_WINDOW, entered by the
\* window's thread
_on_close ==
    /\ ~exited /\ GuiIdle
    /\ BagCardinality(tasks) < MaxTasks
    /\ tasks' = tasks (+) One(NewTask("close", "gui"))
    /\ last' = NoEvent
    /\ UNCHANGED <<env, gui, pad, state, kb_pressed, kb_mods, gp_pressed, kill, listener,
                   running_hold, capture_mode, adapter_pressed, keys_down, mouse_down, exited>>

\* every variable but env and gui
engine_vars ==
    <<state, kb_pressed, kb_mods, gp_pressed, kill, listener, running_hold, capture_mode,
      adapter_pressed, tasks, keys_down, mouse_down, exited, last, pad>>

\* a launch of the program: ProSuiteGUI.__init__ from _reg_load to startup_tick
main ==
    /\ ~gui.open
    /\ LET g0 == EnsureId([gui EXCEPT !.tel = gui.reg])          \* _reg_load, 963-970
           g1 == [g0 EXCEPT !.var = g0.tel.enabled, !.open = TRUE,
                            !.launches = IF @ < MaxLaunches THEN @ + 1 ELSE @]
       IN  gui' = startup_tick(_sync_engine(g1))
    /\ UNCHANGED <<env, engine_vars>>

\* the process ends: the window is closed, or Exit has run
Quit ==
    /\ gui.open
    /\ gui' = [gui EXCEPT !.open = FALSE]
    /\ UNCHANGED <<env, engine_vars>>

\* the day changes
Midnight ==
    /\ gui.today < MaxDay
    /\ gui' = [gui EXCEPT !.today = @ + 1]
    /\ UNCHANGED <<env, engine_vars>>

\* a click on the telemetry checkbox: the widget flips var_telemetry and calls
\* ProSuiteGUI._on_change
_on_change ==
    /\ gui.open
    /\ gui' = _sync_engine([gui EXCEPT !.var = ~@])
    /\ UNCHANGED <<env, engine_vars>>

\* ProSuiteGUI._save
_save ==
    /\ gui.open
    /\ LET g == _sync_engine(gui)
       IN  gui' = startup_tick([g EXCEPT !.reg = g.tel])       \* _reg_save(self.state)
    /\ UNCHANGED <<env, engine_vars>>

\* ProSuiteGUI._reset
_reset ==
    /\ gui.open
    /\ LET t == [TelDefaults EXCEPT !.install_id = TRUE,        \* the old id, or a new one
                                    !.installed_sent = gui.tel.installed_sent,
                                    !.last_daily_ymd = gui.tel.last_daily_ymd,
                                    !.enabled = gui.tel.enabled]
           g == _sync_engine([gui EXCEPT !.tel = t, !.var = t.enabled])  \* _apply_state_to_ui
       IN  gui' = [g EXCEPT !.reg = g.tel]                     \* _reg_save(self.state)
    /\ UNCHANGED <<env, engine_vars>>

\* ------------------------------------------------------------ macro executor
Goto(r, pc) == Put(r, [r EXCEPT !.pc = pc])

\* the thread r returns
End(r) ==
    /\ tasks' = tasks (-) One(r)
    /\ last' = EndOf(r, r.held)

\* the positions inside one output cycle of a hold loop
CyclePcs == {"c1", "c2", "c3", "c4", "c5"}

\* a macro run that is alive when the kill flag is set has seen Emergency or Exit
SeenKill(x) ==
    IF x.act \notin Features THEN x
    ELSE [x EXCEPT !.emg = IF x.act \in HoldActions /\ x.pc \in CyclePcs THEN "cycle"
                            ELSE IF @ = "cycle" THEN "cycle" ELSE "yes"]

\* thread r sets the kill flag and goes to pc
MarkKilled(r, pc) ==
    tasks' = BagOfAll(SeenKill, tasks (-) One(r)) (+) One([r EXCEPT !.pc = pc])

\* The environments in which the callbacks that on_toggle_all queues with
\* root.after are kept and run one by one (_do).  In the others the settings
\* window applies any of its snapshots at any time (apply_state), either value
\* of global_enabled included, which covers what a callback does.
AfterEnvs == {"kb_toggle"}

\* what _reg_save wrote: the record of a step that persists the snapshot st
Saved(st) == [op |-> "save", data |-> st]

\* the value _act_toggle_all hands to on_toggle_all, were it read from the
\* snapshot again at the time of the call
ToggleNotifyValue_Live(r) == state.global_enabled

\* the value _act_toggle_all hands to on_toggle_all: its local on
ToggleNotifyValue(r) == r.on

\* MacroEngine._act_toggle_all
_act_toggle_all(r) ==
    /\ ~exited /\ r.act = "toggle_all"
    /\ \/ /\ r.pc = "tg0"                \* with self._lock: flip, on = ..., _reg_save
          /\ state' = [state EXCEPT !.global_enabled = ~@]
          /\ Put(r, [r EXCEPT !.pc = "tg1", !.on = state'.global_enabled])
          /\ last' = Saved(state')
          /\ gui' = [gui EXCEPT !.reg = gui.tel]
       \/ /\ r.pc = "tg1"                \* _beep(on), on_toggle_all(on): root.after(0, _do)
          /\ env \in AfterEnvs => Len(gui.after) < MaxAfter
          /\ tasks' = tasks (-) One(r)
          /\ last' = [op |-> "end", act |-> r.act, before |-> r.held, held |-> r.held,
                      mheld |-> r.mheld, emg |-> r.emg, on |-> ToggleNotifyValue(r)]
          /\ gui' = IF env \in AfterEnvs
                    THEN [gui EXCEPT !.after = Append(@, ToggleNotifyValue(r)), !.odd = ~@]
                    ELSE gui
          /\ UNCHANGED state
    /\ UNCHANGED <<env, pad, kb_pressed, kb_mods, gp_pressed, kill, listener, running_hold,
                   capture_mode, adapter_pressed, keys_down, mouse_down, exited>>

\* _do of ProSuiteGUI._engine_toggle_all_callback, the oldest callback queued,
\* run by the window's thread: var_global.set(on), then _on_change, which
\* reads the widgets into a new snapshot (_read_ui_state) and applies it
\* (_sync_engine); the widgets other than var_global hold what the last
\* snapshot applied holds
_do ==
    /\ ~exited /\ GuiIdle
    /\ gui.after # <<>>
    /\ state' = [state EXCEPT !.global_enabled = Head(gui.after)]
    /\ gui' = [gui EXCEPT !.after = Tail(@)]
    /\ last' = NoEvent
    /\ UNCHANGED <<env, pad, kb_pressed, kb_mods, gp_pressed, kill, listener, running_hold,
                   capture_mode, adapter_pressed, tasks, keys_down, mouse_down, exited>>

\* MacroEngine._act_exit
_act_exit(r) ==
    /\ ~exited /\ r.act = "exit"
    /\ \/ /\ r.pc = "x0"                 \* self._kill.set()
          /\ kill' = TRUE
          /\ MarkKilled(r, "x1")
          /\ UNCHANGED <<keys_down, mouse_down, exited>>
       \/ /\ r.pc = "x1"                 \* _release_all_outputs(); os._exit(0)
          /\ Emit(r, ReleaseAllOps, "x1")
          /\ exited' = TRUE
          /\ UNCHANGED kill
    /\ last' = NoEvent
    /\ UNCHANGED <<env, gui, pad, state, kb_pressed, kb_mods, gp_pressed, listener, running_hold,
                   capture_mode, adapter_pressed>>

\* the statements of ProSuiteGUI._on_close: MacroEngine.stop, the stop of
\* both controller managers, root.destroy (mainloop returns and main ends)
_on_close_run(r) ==
    /\ ~exited /\ r.act = "close"
    /\ \/ /\ r.pc = "q0"                 \* stop: self._kill.set()
          /\ kill' = TRUE
          /\ MarkKilled(r, "q1")
          /\ UNCHANGED <<listener, gp_pressed, adapter_pressed, keys_down, mouse_down, exited>>
       \/ /\ r.pc = "q1"                 \* stop: _release_all_outputs(); listener.stop()
          /\ Emit(r, ReleaseAllOps, "q2")
          /\ listener' = "stopped"
          /\ UNCHANGED <<kill, gp_pressed, adapter_pressed, exited>>
       \/ /\ r.pc = "q2"                 \* pygame_ctrl.stop(); xinput_ctrl.stop()
          /\ gp_pressed' = gp_pressed \ UNION {adapter_pressed[b] : b \in Backends}
          /\ adapter_pressed' = [b \in Backends |-> {}]
          /\ Goto(r, "q3")
          /\ UNCHANGED <<kill, listener, keys_down, mouse_down, exited>>
       \/ /\ r.pc = "q3"                 \* root.destroy()
          /\ exited' = TRUE
          /\ UNCHANGED <<kill, listener, gp_pressed, adapter_pressed, tasks, keys_down,
                         mouse_down>>
    /\ last' = NoEvent
    /\ UNCHANGED <<env, gui, pad, state, kb_pressed, kb_mods, running_hold, capture_mode>>

\* ------------------------------------------------------------ the XInput manager's threads
\* XInputControllerManager._run for pad 0 and the mask of button A, one
\* statement of its thread at a time.  on_press and on_release go on into
\* ProSuiteGUI._on_gp_press or _on_gp_release and MacroEngine.on_gamepad_press
\* or on_gamepad_release.  In "pe1".."pe3" the buttons read are {BtnA}, in
\* "rl1".."rl3" they are {}.
_run ==
    LET tok == GpToken(BtnA)
        buttons == IF pad.down THEN {BtnA} ELSE {}          \* st.Gamepad.wButtons
    IN
    /\ ~exited
    /\ \/ /\ pad.run = "p0"            \* while not self._stop.is_set(): XInputGetState
          /\ pad' = IF pad.stop THEN [pad EXCEPT !.run = "done"]
                    ELSE IF ~pad.on THEN [pad EXCEPT !.prev = {}]
                    ELSE IF buttons = pad.prev THEN pad
                    ELSE IF BtnA \in buttons THEN [pad EXCEPT !.run = "pe1"]
                    ELSE [pad EXCEPT !.run = "rl1"]
          /\ last' = NoEvent
          /\ UNCHANGED <<adapter_pressed, gp_pressed, tasks>>
       \/ /\ pad.run = "pe1"           \* _emit_press: if tok in self._pressed: return
          /\ pad' = IF tok \in adapter_pressed["xinput"]
                    THEN [pad EXCEPT !.run = "p0", !.prev = {BtnA}]
                    ELSE [pad EXCEPT !.run = "pe2"]
          /\ last' = NoEvent
          /\ UNCHANGED <<adapter_pressed, gp_pressed, tasks>>
       \/ /\ pad.run = "pe2"           \* self._pressed.add(tok)
          /\ adapter_pressed' = [adapter_pressed EXCEPT !["xinput"] = @ \cup {tok}]
          /\ pad' = [pad EXCEPT !.run = "pe3"]
          /\ last' = NoEvent
          /\ UNCHANGED <<gp_pressed, tasks>>
       \/ /\ pad.run = "pe3"           \* self.on_press(tok); self._prev_buttons[i] = buttons
          /\ pad' = [pad EXCEPT !.run = "p0", !.prev = {BtnA}, !.sent = "press"]
          /\ IF capture_mode
             THEN /\ last' = Routed("gp", tok, [res |-> "capture", act |-> "none"], "none")
                  /\ UNCHANGED <<gp_pressed, tasks>>
             ELSE IF kill
             THEN /\ last' = Routed("gp", tok, [res |-> "kill", act |-> "none"], "none")
                  /\ UNCHANGED <<gp_pressed, tasks>>
             ELSE LET d == _maybe_trigger_gp(str_upper(tok)) IN
                  /\ gp_pressed' = gp_pressed \cup {str_upper(tok)}
                  /\ Dispatch(d)
                  /\ last' = Routed("gp", tok, d, Started)
          /\ UNCHANGED adapter_pressed
       \/ /\ pad.run = "rl1"           \* _emit_release: if tok not in self._pressed: return
          /\ pad' = IF tok \notin adapter_pressed["xinput"]
                    THEN [pad EXCEPT !.run = "p0", !.prev = {}]
                    ELSE [pad EXCEPT !.run = "rl2"]
          /\ last' = NoEvent
          /\ UNCHANGED <<adapter_pressed, gp_pressed, tasks>>
       \/ /\ pad.run = "rl2"           \* self._pressed.discard(tok)
          /\ adapter_pressed' = [adapter_pressed EXCEPT !["xinput"] = @ \ {tok}]
          /\ pad' = [pad EXCEPT !.run = "rl3"]
          /\ last' = NoEvent
          /\ UNCHANGED <<gp_pressed, tasks>>
       \/ /\ pad.run = "rl3"           \* self.on_release(tok); self._prev_buttons[i] = buttons
          /\ pad' = [pad EXCEPT !.run = "p0", !.prev = {}, !.sent = "release"]
          /\ gp_pressed' = gp_pressed \ {str_upper(tok)}
          /\ last' = [op |-> "release", src |-> "gp", tok |-> tok]
          /\ UNCHANGED <<adapter_pressed, tasks>>
    /\ UNCHANGED <<env, gui, state, kb_pressed, kb_mods, kill, listener, running_hold,
                   capture_mode, keys_down, mouse_down, exited>>

\* ProSuiteGUI._on_close with XInputControllerManager.stop taken one statement
\* at a time, on the window's thread, while the thread of _run is alive (stop
\* does not join it)
stop(r) ==
    /\ ~exited /\ r.act = "close"
    /\ \/ /\ r.pc = "q0"                 \* MacroEngine.stop: self._kill.set()
          /\ kill' = TRUE
          /\ MarkKilled(r, "q1")
          /\ last' = NoEvent
          /\ UNCHANGED <<pad, listener, gp_pressed, adapter_pressed, keys_down, mouse_down,
                         exited>>
       \/ /\ r.pc = "q1"                 \* MacroEngine.stop: _release_all_outputs(); listener.stop()
          /\ Emit(r, ReleaseAllOps, "s0")
          /\ listener' = "stopped"
          /\ last' = NoEvent
          /\ UNCHANGED <<pad, kill, gp_pressed, adapter_pressed, exited>>
       \/ /\ r.pc = "s0"                 \* pygame_ctrl.stop(); xinput_ctrl.stop(): self._stop.set()
          /\ gp_pressed' = gp_pressed \ adapter_pressed["pygame"]
          /\ adapter_pressed' = [adapter_pressed EXCEPT !["pygame"] = {}]
          /\ pad' = [pad EXCEPT !.stop = TRUE]
          /\ Goto(r, "s1")
          /\ last' = NoEvent
          /\ UNCHANGED <<kill, listener, keys_down, mouse_down, exited>>
       \/ /\ r.pc = "s1"                 \* list(self._pressed)
          /\ pad' = [pad EXCEPT !.snap = adapter_pressed["xinput"]]
          /\ Goto(r, "s2")
          /\ last' = NoEvent
          /\ UNCHANGED <<kill, listener, gp_pressed, adapter_pressed, keys_down, mouse_down,
                         exited>>
       \/ /\ r.pc = "s2" /\ pad.snap # {}  \* for tok in ...: self.on_release(tok)
          /\ \E tok \in pad.snap :
                /\ pad' = [pad EXCEPT !.snap = @ \ {tok}, !.sent = "release"]
                /\ gp_pressed' = gp_pressed \ {str_upper(tok)}
                /\ last' = [op |-> "release", src |-> "gp", tok |-> tok]
          /\ UNCHANGED <<kill, listener, adapter_pressed, tasks, keys_down, mouse_down, exited>>
       \/ /\ r.pc = "s2" /\ pad.snap = {}  \* self._pressed.clear()
          /\ adapter_pressed' = [adapter_pressed EXCEPT !["xinput"] = {}]
          /\ Goto(r, "q3")
          /\ last' = NoEvent
          /\ UNCHANGED <<pad, kill, listener, gp_pressed, keys_down, mouse_down, exited>>
       \/ /\ r.pc = "q3"                 \* root.destroy()
          /\ exited' = TRUE
          /\ last' = NoEvent
          /\ UNCHANGED <<pad, kill, listener, gp_pressed, adapter_pressed, tasks, keys_down,
                         mouse_down>>
    /\ UNCHANGED <<env, gui, state, kb_pressed, kb_mods, running_hold, capture_mode>>

\* MacroEngine._act_emergency
_act_emergency(r) ==
    /\ ~exited /\ r.act = "emergency"
    /\ \/ /\ r.pc = "e0"                 \* self._kill.set()
          /\ kill' = TRUE
          /\ MarkKilled(r, "e1")
          /\ last' = NoEvent
          /\ UNCHANGED <<keys_down, mouse_down>>
       \/ /\ r.pc = "e1"                 \* _release_all_outputs(); _beep; sleep(0.15)
          /\ Emit(r, ReleaseAllOps, "e2")
          /\ last' = NoEvent
          /\ UNCHANGED kill
       \/ /\ r.pc = "e2"                 \* self._kill.clear()
          /\ kill' = FALSE
          /\ End(r)
          /\ UNCHANGED <<keys_down, mouse_down>>
    /\ UNCHANGED <<env, gui, pad, state, kb_pressed, kb_mods, gp_pressed, listener, running_hold,
                   capture_mode, adapter_pressed, exited>>

\* a run that reads each duration from the engine's snapshot when it needs it
RunTimings_Live(r) == state.timings

\* the durations a one-shot run works with: its own copy, made under the lock
RunTimings(r) == r.tm

\* MacroEngine._act_stall
_act_stall(r) ==
    /\ ~exited /\ r.act = "stall"
    /\ \/ /\ r.pc = "st0"                \* with self._lock: the two checks, read t
          /\ IF ~state.global_enabled \/ ~state.features["stall"]
             THEN End(r)
             ELSE /\ Put(r, [r EXCEPT !.pc = "st1",
                                      !.tm = [stall_click_ms |-> state.timings.stall_click_ms]])
                  /\ last' = NoEvent
          /\ UNCHANGED <<keys_down, mouse_down>>
       \/ /\ r.pc = "st1"                \* Q, D down, mouse down; sleep(t)
          /\ EmitSleep(r, <<KeyDown("Q"), KeyDown("D"), MouseRight(TRUE)>>,
                       IF RunTimings(r).stall_click_ms > 0
                       THEN RunTimings(r).stall_click_ms ELSE 0,
                       "st2")
          /\ last' = NoEvent
       \/ /\ r.pc = "st2"                \* mouse up, D, Q up
          /\ EmitEnd(r, <<MouseRight(FALSE), KeyUp("D"), KeyUp("Q")>>)
    /\ UNCHANGED <<env, gui, pad, state, kb_pressed, kb_mods, gp_pressed, kill, listener, running_hold,
                   capture_mode, adapter_pressed, exited>>

\* the outputs of _act_speedflip between two sleeps, by position
SpeedFlipOps(pc, tm) ==
    CASE pc = "sf1"  -> <<KeyDown("I"), KeyDown("A")>>
      [] pc = "sf2"  -> <<KeyUp("A")>>
      [] pc = "sf3"  -> <<KeyUp("W"), KeyUp("S"), KeyUp("E"), KeyUp("Q"),
                          KeyDown("E"), KeyDown("W")>>
      [] pc = "sf4"  -> <<MouseRight(TRUE)>>
      [] pc = "sf5"  -> <<MouseRight(FALSE)>>
      [] pc = "sf6"  -> <<MouseRight(TRUE)>>
      [] pc = "sf7"  -> <<MouseRight(FALSE), KeyUp("W"), KeyDown("S"), KeyDown("D")>>
      [] pc = "sf8"  -> IF tm.sf_s_hold_ms < tm.sf_d_hold_ms
                        THEN <<KeyUp("S"), KeyDown("W")>>
                        ELSE <<KeyUp("D")>>
      [] pc = "sf9"  -> IF tm.sf_s_hold_ms < tm.sf_d_hold_ms
                        THEN <<KeyUp("D")>>
                        ELSE <<KeyUp("S"), KeyDown("W")>>
      [] pc = "sf10" -> <<KeyUp("E")>>
      [] pc = "sf11" -> <<KeyDown("LShift")>>
      [] pc = "sf12" -> <<KeyUp("LShift")>>
      [] pc = "sf13" -> <<KeyUp("I")>>

\* a wait slept whatever its sign
SleepIfPositive_Always(x) == x

\* a wait that is slept only when it is positive: if x>0: time.sleep(x/1000.0)
SleepIfPositive(x) == IF x > 0 THEN x ELSE 0

max_hold(tm) == IF tm.sf_s_hold_ms > tm.sf_d_hold_ms THEN tm.sf_s_hold_ms ELSE tm.sf_d_hold_ms

time_until_e(tm) == tm.sf_airroll_time_ms - max_hold(tm)

time_until_shift(tm) ==
    tm.sf_shift_start_ms
      - (IF tm.sf_airroll_time_ms > max_hold(tm) THEN tm.sf_airroll_time_ms ELSE max_hold(tm))

\* the wait between the two releases taken as d_dur - s_dur in both branches
SecondHold_Signed(tm) == tm.sf_d_hold_ms - tm.sf_s_hold_ms

\* the wait between the release of the key with the shorter hold and that of
\* the other: d_dur - s_dur in the branch s_dur < d_dur, s_dur - d_dur in the
\* else branch
SecondHold(tm) ==
    IF tm.sf_s_hold_ms < tm.sf_d_hold_ms THEN tm.sf_d_hold_ms - tm.sf_s_hold_ms
    ELSE tm.sf_s_hold_ms - tm.sf_d_hold_ms

\* the milliseconds _act_speedflip sleeps after the outputs of a position
SpeedFlipSleep(pc, tm) ==
    CASE pc = "sf1"  -> tm.sf_a_hold_ms
      [] pc = "sf2"  -> tm.sf_wait_before_jump_ms
      [] pc = "sf3"  -> tm.sf_prejump_ms
      [] pc = "sf4"  -> tm.sf_click_down_ms
      [] pc = "sf5"  -> tm.sf_between_jumps_ms
      [] pc = "sf6"  -> tm.sf_click_down_ms
      [] pc = "sf7"  -> IF tm.sf_s_hold_ms < tm.sf_d_hold_ms
                        THEN tm.sf_s_hold_ms ELSE tm.sf_d_hold_ms
      [] pc = "sf8"  -> SecondHold(tm)
      [] pc = "sf9"  -> SleepIfPositive(time_until_e(tm))
      [] pc = "sf10" -> SleepIfPositive(time_until_shift(tm))
      [] pc = "sf11" -> tm.sf_shift_duration_ms
      [] pc = "sf12" -> tm.sf_post_shift_ms

SpeedFlipNext(pc) ==
    CASE pc = "sf1" -> "sf2" [] pc = "sf2" -> "sf3" [] pc = "sf3" -> "sf4"
      [] pc = "sf4" -> "sf5" [] pc = "sf5" -> "sf6" [] pc = "sf6" -> "sf7"
      [] pc = "sf7" -> "sf8" [] pc = "sf8" -> "sf9" [] pc = "sf9" -> "sf10"
      [] pc = "sf10" -> "sf11" [] pc = "sf11" -> "sf12" [] pc = "sf12" -> "sf13"

\* MacroEngine._act_speedflip
_act_speedflip(r) ==
    /\ ~exited /\ r.act = "speedflip"
    /\ \/ /\ r.pc = "sf0"                \* with self._lock: the two checks, tm = dict(timings)
          /\ IF ~state.global_enabled \/ ~state.features["speedflip"]
             THEN End(r)
             ELSE /\ Put(r, [r EXCEPT !.pc = "sf1", !.tm = state.timings])
                  /\ last' = NoEvent
          /\ UNCHANGED <<keys_down, mouse_down>>
       \/ /\ r.pc \in {"sf1", "sf2", "sf3", "sf4", "sf5", "sf6", "sf7", "sf8",
                       "sf9", "sf10", "sf11", "sf12"}
          /\ EmitSleep(r, SpeedFlipOps(r.pc, RunTimings(r)),
                       SpeedFlipSleep(r.pc, RunTimings(r)), SpeedFlipNext(r.pc))
          /\ last' = NoEvent
       \/ /\ r.pc = "sf13"               \* key_up("I")
          /\ EmitEnd(r, SpeedFlipOps("sf13", RunTimings(r)))
    /\ UNCHANGED <<env, gui, pad, state, kb_pressed, kb_mods, gp_pressed, kill, listener, running_hold,
                   capture_mode, adapter_pressed, exited>>

\* the outputs of one cycle of a hold loop between two sleeps, by position
HoldOps(a, pc) ==
    IF a = "straightdash"
    THEN CASE pc = "c1" -> <<KeyDown("W"), KeyDown("Q"), MouseRight(TRUE)>>
           [] pc = "c2" -> <<MouseRight(FALSE)>>
           [] pc = "c3" -> <<MouseRight(TRUE)>>
           [] pc = "c4" -> <<MouseRight(FALSE)>>
    ELSE CASE pc = "c1" -> <<KeyDown("W"), KeyDown("Q"), KeyDown("D")>>
           [] pc = "c2" -> <<KeyUp("D"), KeyDown("A"), MouseRight(TRUE)>>
           [] pc = "c3" -> <<MouseRight(FALSE)>>
           [] pc = "c4" -> <<MouseRight(TRUE)>>
           [] pc = "c5" -> <<MouseRight(FALSE), KeyUp("A")>>

\* the milliseconds a hold loop sleeps after the outputs of a position
HoldSleep(a, pc, tm) ==
    IF a = "straightdash"
    THEN CASE pc = "c1" -> tm.down_ms
           [] pc = "c2" -> tm.gap_ms
           [] pc = "c3" -> tm.down_ms
           [] pc = "c4" -> 1
    ELSE CASE pc = "c1" -> tm.pre_ms
           [] pc = "c2" -> tm.down_ms
           [] pc = "c3" -> tm.gap_ms
           [] pc = "c4" -> tm.down_ms
           [] pc = "c5" -> 1

HoldNext(a, pc) ==
    CASE pc = "c1" -> "c2" [] pc = "c2" -> "c3" [] pc = "c3" -> "c4"
      [] pc = "c4" -> IF a = "straightdash" THEN "test" ELSE "c5"
      [] pc = "c5" -> "test"

\* the finally block of StraightDash without its key_up("W")
HoldFinallyOps_NoW(a) ==
    IF a = "straightdash" THEN <<KeyUp("Q")>>
    ELSE <<KeyUp("A"), KeyUp("D"), KeyUp("Q"), KeyUp("W")>>

\* the finally block of a hold loop
HoldFinallyOps(a) ==
    IF a = "straightdash" THEN <<KeyUp("Q"), KeyUp("W")>>
    ELSE <<KeyUp("A"), KeyUp("D"), KeyUp("Q"), KeyUp("W")>>

\* what a hold loop reads of the timings on entry
HoldTimings(a) ==
    IF a = "straightdash"
    THEN [down_ms |-> state.timings.sd_click_down_ms,
          gap_ms |-> state.timings.sd_between_clicks_ms]
    ELSE [pre_ms |-> state.timings.td_pre_ms,
          down_ms |-> state.timings.td_click_down_ms,
          gap_ms |-> state.timings.td_between_clicks_ms]

\* int(...) of the entry block raises on a value that is no number
int_raises(tm) == \E f \in DOMAIN tm : tm[f] = NotInt

\* time.sleep raises ValueError on a negative length
sleep_raises(ms) == ms < 0

\* an exception inside the try of a hold loop, were there no finally block: the
\* thread ends where it is
OnRaise_NoFinally(a) == "dead"

\* where an exception inside the try of a hold loop goes: the finally block
OnRaise(a) == "fin"

\* the thread r of a hold loop issues ops and the next statement raises
EmitRaise(r, ops) ==
    LET o == EmitAll([keys |-> keys_down, mouse |-> mouse_down,
                      held |-> r.held, mheld |-> r.mheld], ops)
        r2 == [r EXCEPT !.pc = OnRaise(r.act), !.held = o.held, !.mheld = o.mheld,
                        !.err = TRUE]
    IN  /\ keys_down' = o.keys
        /\ mouse_down' = o.mouse
        /\ IF r2.pc = "fin"
           THEN Put(r, r2) /\ last' = NoEvent
           ELSE tasks' = tasks (-) One(r) /\ last' = EndOf(r2, r.held)

\* the loop body without its check of the two flags
HoldEnabled_Unchecked(a) == TRUE

\* the check of the global flag alone
HoldEnabled_GlobalOnly(a) == state.global_enabled

\* the check at the top of the loop body, under the lock: global and feature flag
HoldEnabled(a) == state.global_enabled /\ state.features[a]

\* MacroEngine._act_straightdash_hold and MacroEngine._act_turningdash_hold
_act_hold(r) ==
    LET a == r.act IN
    /\ ~exited /\ a \in HoldActions
    /\ \/ /\ r.pc = "h0"                 \* self._running_hold[a] = True
          /\ running_hold' = [running_hold EXCEPT ![a] = TRUE]
          /\ Goto(r, "h1")
          /\ last' = NoEvent
          /\ UNCHANGED <<keys_down, mouse_down>>
       \/ /\ r.pc = "h1"                 \* with self._lock: parse the binding, read timings
          /\ LET h == ParsedText[state.hotkeys[a]] IN   \* parse_hotkey(hk.get(action, ""))
             IF int_raises(HoldTimings(a))
             THEN EmitRaise(r, <<>>)
             ELSE /\ Put(r, [r EXCEPT !.pc = "test", !.kind = h.kind, !.key_req = h.key,
                                      !.tm = HoldTimings(a)])
                  /\ last' = NoEvent
                  /\ UNCHANGED <<keys_down, mouse_down>>
          /\ UNCHANGED running_hold
       \/ /\ r.pc = "test"               \* while not kill and _hold_active(kind, key_req)
          /\ IF ~kill /\ _hold_active(r.kind, r.key_req)
             THEN Goto(r, "chk")
             ELSE Goto(r, "fin")
          /\ last' = NoEvent
          /\ UNCHANGED <<running_hold, keys_down, mouse_down>>
       \/ /\ r.pc = "chk"                \* with self._lock: global and feature flag, or break
          /\ IF ~HoldEnabled(a)
             THEN Goto(r, "fin")
             ELSE Goto(r, "c1")
          /\ last' = NoEvent
          /\ UNCHANGED <<running_hold, keys_down, mouse_down>>
       \/ /\ r.pc \in CyclePcs
          /\ IF sleep_raises(HoldSleep(a, r.pc, r.tm))
             THEN EmitRaise(r, HoldOps(a, r.pc))
             ELSE /\ EmitSleep(r, HoldOps(a, r.pc), HoldSleep(a, r.pc, r.tm),
                               HoldNext(a, r.pc))
                  /\ last' = NoEvent
          /\ UNCHANGED running_hold
       \/ /\ r.pc = "fin"                \* finally: key_up ..., _running_hold[a] = False
          /\ EmitEnd(r, HoldFinallyOps(a))
          /\ running_hold' = [running_hold EXCEPT ![a] = FALSE]
    /\ UNCHANGED <<env, gui, pad, state, kb_pressed, kb_mods, gp_pressed, kill, listener, capture_mode,
                   adapter_pressed, exited>>

\* the positions of a run whose statements are inside 'with self._lock'
LockedPcs(act) ==
    CASE act = "toggle_all"   -> {"tg0"}             \* lines 807-810
      [] act = "stall"        -> {"st0"}             \* lines 829-832
      [] act = "speedflip"    -> {"sf0"}             \* lines 838-841
      [] act \in HoldActions  -> {"h1", "chk"}       \* lines 901-905, 907-909
      [] OTHER                -> {}

\* the positions of a run whose statements sleep or wait for input or output:
\* _reg_save, _beep, SendInput, time.sleep
WaitPcs(act) ==
    CASE act = "toggle_all"   -> {"tg0", "tg1"}      \* _reg_save; _beep
      [] act = "stall"        -> {"st1", "st2"}
      [] act = "speedflip"    -> {"sf1", "sf2", "sf3", "sf4", "sf5", "sf6", "sf7", "sf8",
                                  "sf9", "sf10", "sf11", "sf12", "sf13"}
      [] act \in HoldActions  -> CyclePcs \cup {"fin"}
      [] act = "emergency"    -> {"e1"}
      [] act = "exit"         -> {"x1"}
      [] act = "close"        -> {"q1"}
      [] OTHER                -> {}

\* ------------------------------------------------------------ specification
\* The engine under the keyboard, the pad and the settings window.  Emergency
\* comes from its hotkey here; the window's Emergency Stop button is explored
\* under SpecHalt and SpecPanic.
Next ==
    \/ \E key \in Environments[env].keys : _on_press(key)
    \/ \E key \in Environments[env].keys : _on_release(key)
    \/ \E p \in Environments[env].pads : _emit_press(p[1], p[2]) /\ UNCHANGED pad
    \/ \E p \in Environments[env].pads : _emit_release(p[1], p[2]) /\ UNCHANGED pad
    \/ \E st \in Snapshots(env) : apply_state(st)
    \/ \E on \in BOOLEAN : set_capture_mode(on)
    \/ \E r \in Threads : _act_toggle_all(r)
    \/ \E r \in Threads : _act_exit(r)
    \/ \E r \in Threads : _act_emergency(r)
    \/ \E r \in Threads : _act_stall(r)
    \/ \E r \in Threads : _act_speedflip(r)
    \/ \E r \in Threads : _act_hold(r)

Spec == Init /\ [][Next]_vars

\* A macro on the pad button A while the settings window is used: the
\* environments pad_tune, flip_tune and stall_tune.
NextTune ==
    \/ \E p \in Environments[env].pads : _emit_press(p[1], p[2]) /\ UNCHANGED pad
    \/ \E p \in Environments[env].pads : _emit_release(p[1], p[2]) /\ UNCHANGED pad
    \/ \E st \in Snapshots(env) : apply_state(st)
    \/ \E r \in Threads : _act_stall(r)
    \/ \E r \in Threads : _act_speedflip(r)
    \/ \E r \in Threads : _act_hold(r)

InitTune == Start({"pad_tune", "flip_tune", "stall_tune"})

SpecTune == InitTune /\ [][NextTune]_vars

\* SpeedFlip on the pad button A under each of ArithTimings, the settings
\* window left alone.
NextArith ==
    \/ \E p \in Environments[env].pads : _emit_press(p[1], p[2]) /\ UNCHANGED pad
    \/ \E p \in Environments[env].pads : _emit_release(p[1], p[2]) /\ UNCHANGED pad
    \/ \E r \in Threads : _act_speedflip(r)

InitArith == Start({"flip_arith"})

SpecArith == InitArith /\ [][NextArith]_vars

\* The XInput adapter's polling loop over a pad whose button A is pressed and
\* let go and which is unplugged and plugged in again: the environment pad_wire.
NextPad ==
    \/ \E d \in BOOLEAN : PadButton(d)
    \/ \E on \in BOOLEAN : PadPlug(on)
    \/ XInputPoll
    \/ \E r \in Threads : _act_hold(r)

InitPad == Start({"pad_wire"})

SpecPad == InitPad /\ [][NextPad]_vars

\* The two pure functions of a binding text, applied to each of HotkeyTexts.
NextHotkey == \E raw \in HotkeyTexts : Reformat(raw)

InitHotkey == Start({"kb_hold"})

SpecHotkey == InitHotkey /\ [][NextHotkey]_vars

\* Stall on the pad button A and Emergency on L while the kill flag is set and
\* cleared by Emergency: the environment pad_shot.
NextKill ==
    \/ \E key \in Environments[env].keys : _on_press(key)
    \/ \E key \in Environments[env].keys : _on_release(key)
    \/ \E p \in Environments[env].pads : _emit_press(p[1], p[2]) /\ UNCHANGED pad
    \/ \E p \in Environments[env].pads : _emit_release(p[1], p[2]) /\ UNCHANGED pad
    \/ \E st \in Snapshots(env) : apply_state(st)
    \/ \E on \in BOOLEAN : set_capture_mode(on)
    \/ \E r \in Threads : _act_emergency(r)
    \/ \E r \in Threads : _act_stall(r)

InitKill == Start({"pad_shot"})

SpecKill == InitKill /\ [][NextKill]_vars

\* The window is closed while a key or the pad button is held: the
\* environment pad_quit.
NextClose ==
    \/ \E key \in Environments[env].keys : _on_press(key)
    \/ \E key \in Environments[env].keys : _on_release(key)
    \/ \E p \in Environments[env].pads : _emit_press(p[1], p[2]) /\ UNCHANGED pad
    \/ \E p \in Environments[env].pads : _emit_release(p[1], p[2]) /\ UNCHANGED pad
    \/ _on_close
    \/ \E r \in Threads : _on_close_run(r)
    \/ \E r \in Threads : _act_hold(r)

InitClose == Start({"pad_quit"})

SpecClose == InitClose /\ [][NextClose]_vars

\* The hat of one pygame device, with Stall on its UP direction: the
\* environment pad_hat.
NextHat ==
    \/ \E v \in HatValues : _handle_hat(v)
    \/ \E st \in Snapshots(env) : apply_state(st)
    \/ \E on \in BOOLEAN : set_capture_mode(on)
    \/ \E r \in Threads : _act_stall(r)

InitHat == Start({"pad_hat"})

SpecHat == InitHat /\ [][NextHat]_vars

\* The thread of the XInput manager, one statement at a time, while the
\* window is closed and stop() runs on the window's thread: the environment
\* pad_wire.
NextStop ==
    \/ \E d \in BOOLEAN : PadButton(d)
    \/ _run
    \/ _on_close
    \/ \E r \in Threads : stop(r)
    \/ \E r \in Threads : _act_hold(r)

InitStop == Start({"pad_wire"})

SpecStop == InitStop /\ [][NextStop]_vars

\* Stall, SpeedFlip and StraightDash triggered while their flags are off: the
\* environment all_off.
NextDark ==
    \/ \E key \in Environments[env].keys : _on_press(key)
    \/ \E key \in Environments[env].keys : _on_release(key)
    \/ \E p \in Environments[env].pads : _emit_press(p[1], p[2]) /\ UNCHANGED pad
    \/ \E p \in Environments[env].pads : _emit_release(p[1], p[2]) /\ UNCHANGED pad
    \/ \E st \in Snapshots(env) : apply_state(st)
    \/ \E r \in Threads : _act_stall(r)
    \/ \E r \in Threads : _act_speedflip(r)
    \/ \E r \in Threads : _act_hold(r)

InitDark == Start({"all_off"})

SpecDark == InitDark /\ [][NextDark]_vars

\* H pressed with and without Ctrl where the bare key is bound to an action
\* that comes before the action of the chord: the environment kb_bare.
NextChord ==
    \/ \E key \in Environments[env].keys : _on_press(key)
    \/ \E key \in Environments[env].keys : _on_release(key)
    \/ \E st \in Snapshots(env) : apply_state(st)
    \/ \E r \in Threads : _act_toggle_all(r)

InitChord == Start({"kb_bare"})

SpecChord == InitChord /\ [][NextChord]_vars

\* The hold loops while a statement of theirs raises: the environments
\* hold_err, turn_err and hold_boot.
NextRaise ==
    \/ \E key \in Environments[env].keys : _on_press(key)
    \/ \E key \in Environments[env].keys : _on_release(key)
    \/ \E p \in Environments[env].pads : _emit_press(p[1], p[2]) /\ UNCHANGED pad
    \/ \E p \in Environments[env].pads : _emit_release(p[1], p[2]) /\ UNCHANGED pad
    \/ \E st \in Snapshots(env) : apply_state(st)
    \/ \E r \in Threads : _act_hold(r)

InitRaise == Start({"hold_err", "turn_err", "hold_boot"})

SpecRaise == InitRaise /\ [][NextRaise]_vars

\* ToggleAll and the callbacks it queues for the window's thread, with no
\* other edit of the configuration: the environment kb_toggle.
NextParity ==
    \/ \E key \in Environments[env].keys : _on_press(key)
    \/ \E key \in Environments[env].keys : _on_release(key)
    \/ \E r \in Threads : _act_toggle_all(r)
    \/ _do

InitParity == Start({"kb_toggle"})

SpecParity == InitParity /\ [][NextParity]_vars

\* SpeedFlip on a key while the Emergency Stop button is clicked: the
\* environment flip_panic.
NextPanic ==
    \/ \E key \in Environments[env].keys : _on_press(key)
    \/ \E key \in Environments[env].keys : _on_release(key)
    \/ \E st \in Snapshots(env) : apply_state(st)
    \/ _emergency
    \/ \E r \in Threads : _act_emergency(r)
    \/ \E r \in Threads : _act_speedflip(r)

InitPanic == Start({"flip_panic"})

SpecPanic == InitPanic /\ [][NextPanic]_vars

\* The hold loops with the Emergency Stop button and the master toggle: the
\* environments hold_panic and kb_hold.
NextHalt ==
    \/ \E key \in Environments[env].keys : _on_press(key)
    \/ \E key \in Environments[env].keys : _on_release(key)
    \/ \E p \in Environments[env].pads : _emit_press(p[1], p[2]) /\ UNCHANGED pad
    \/ \E p \in Environments[env].pads : _emit_release(p[1], p[2]) /\ UNCHANGED pad
    \/ \E st \in Snapshots(env) : apply_state(st)
    \/ _emergency
    \/ \E r \in Threads : _act_toggle_all(r)
    \/ \E r \in Threads : _act_emergency(r)
    \/ \E r \in Threads : _act_hold(r)

InitHalt == Start({"hold_panic", "kb_hold"})

SpecHalt == InitHalt /\ [][NextHalt]_vars

\* The master toggle on Ctrl+H while the settings window is used: the
\* environment kb_hold.
NextToggle ==
    \/ \E key \in Environments[env].keys : _on_press(key)
    \/ \E key \in Environments[env].keys : _on_release(key)
    \/ \E st \in Snapshots(env) : apply_state(st)
    \/ \E r \in Threads : _act_toggle_all(r)
    \/ \E r \in Threads : _act_hold(r)

InitToggle == Start({"kb_hold"})

SpecToggle == InitToggle /\ [][NextToggle]_vars

\* Bindings that name no trigger: the environment null_bind.
NextNull ==
    \/ \E key \in Environments[env].keys : _on_press(key)
    \/ \E key \in Environments[env].keys : _on_release(key)
    \/ \E p \in Environments[env].pads : _emit_press(p[1], p[2]) /\ UNCHANGED pad
    \/ \E p \in Environments[env].pads : _emit_release(p[1], p[2]) /\ UNCHANGED pad
    \/ \E st \in Snapshots(env) : apply_state(st)
    \/ \E r \in Threads : _act_emergency(r)

InitNull == Start({"null_bind"})

SpecNull == InitNull /\ [][NextNull]_vars

\* The telemetry over launches, days and the Settings buttons.  The engine
\* stays as it is: what ToggleAll saves of the telemetry is what Reset saves.
NextTelemetry ==
    \/ main
    \/ Quit
    \/ Midnight
    \/ _on_change
    \/ _save
    \/ _reset

InitTelemetry == Start({"kb_hold"})

SpecTelemetry == InitTelemetry /\ [][NextTelemetry]_vars

\* Emergency, Exit and the close of the window: the environment kb_quit.
NextQuit ==
    \/ \E key \in Environments[env].keys : _on_press(key)
    \/ \E key \in Environments[env].keys : _on_release(key)
    \/ \E st \in Snapshots(env) : apply_state(st)
    \/ _on_close
    \/ \E r \in Threads : _on_close_run(r)
    \/ \E r \in Threads : _act_exit(r)
    \/ \E r \in Threads : _act_emergency(r)

InitQuit == Start({"kb_quit"})

SpecQuit == InitQuit /\ [][NextQuit]_vars

\* The hold scenario on the pad: the environment pad_hold alone, the pad and
\* the settings window as the only inputs, with the threads scheduled fairly.  Each statement of a hold loop is a bounded sleep
\* or a few calls, and the operating system runs every thread that is ready:
\* a loop thread that stays at a position takes the step of that position.
HoldPcs == {"h0", "h1", "test", "chk", "fin"} \cup CyclePcs

HoldStep(a, pc) == \E r \in Threads : r.act = a /\ r.pc = pc /\ _act_hold(r)

NextHold ==
    \/ \E p \in Environments[env].pads : _emit_press(p[1], p[2]) /\ UNCHANGED pad
    \/ \E p \in Environments[env].pads : _emit_release(p[1], p[2]) /\ UNCHANGED pad
    \/ \E st \in Snapshots(env) : apply_state(st)
    \/ \E r \in Threads : _act_hold(r)

InitHold == Start({"pad_hold"})

SpecHold ==
    /\ InitHold
    /\ [][NextHold]_vars
    /\ \A a \in HoldActions : \A pc \in HoldPcs : WF_vars(HoldStep(a, pc))

\* ------------------------------------------------------------ properties
\* the positions inside the while loop of a hold action
LoopPcs == {"test", "chk"} \cup CyclePcs

\* the number of threads that are inside the loop of hold action a
Looping(a) ==
    LET S == {r \in Threads : r.act = a /\ r.pc \in LoopPcs}
    IN  BagCardinality([r \in S |-> tasks[r]])

\* the actions, by index in ActionOrder, whose binding the press of last matches
Matched ==
    IF last.op # "press" THEN {}
    ELSE IF last.src = "kb"
    THEN {i \in DOMAIN ActionOrder : KbMatch(ActionOrder[i], last.tok, kb_mods)}
    ELSE {i \in DOMAIN ActionOrder : GpMatch(ActionOrder[i], last.tok)}

\* a press has just been routed with capture mode off and the kill flag clear
PressRouted == last.op = "press" /\ ~capture_mode /\ ~kill

\* C1: at any time at most one thread is inside the loop of a given hold
\* action, however the presses of its trigger interleave with the start of
\* the loop thread.
C1_OneLoopPerHoldAction == \A a \in HoldActions : Looping(a) <= 1

\* C2: when a hold-loop thread has ended, for whichever reason its loop was
\* left, every key it pressed has been released by it and the registry entry
\* of its action is false.
C2_HoldLoopCleansUp ==
    (last.op = "end" /\ last.act \in HoldActions)
        => (last.held = {} /\ ~running_hold[last.act])

\* a hold loop that held W and Q when its loop was left has ended
C2_Witness ==
    /\ last.op = "end" /\ last.act \in HoldActions
    /\ {"W", "Q"} \subseteq last.before
    /\ last.held = {}

\* C3: when a run of Stall, SpeedFlip, StraightDash or TurningDash ends and
\* neither Emergency nor Exit was triggered during it, every key the run
\* pressed has been released by the run itself.
C3_RunLeavesNoKeyDown ==
    (last.op = "end" /\ last.act \in Features /\ last.emg = "no") => last.held = {}

\* C4: once Emergency has completed (the kill flag is clear again) and the
\* one-shot macro that was in flight when it was triggered has run to its
\* end, no synthetic key or mouse button is down.
C4_NothingDownAfterEmergency ==
    (/\ last.op = "end" /\ last.act \in {"stall", "speedflip"} /\ last.emg # "no"
     /\ tasks = EmptyBag /\ ~kill)
        => (keys_down = {} /\ ~mouse_down)

\* C5: when an Emergency run has completed and cleared the kill flag, the
\* keyboard listener is still running, whatever key or button events arrived
\* while the flag was set.
C5_ListenerRunsAfterEmergency ==
    (last.op = "end" /\ last.act = "emergency") => listener = "running"

\* C6: a hold loop that was inside an output cycle when Emergency was
\* triggered does not start another cycle: at its next loop test it leaves
\* the loop.
C6_NoCycleAfterEmergency ==
    [][\A r \in Threads :
         (r.act \in HoldActions /\ r.emg = "cycle" /\ r.pc = "test")
             => tasks' # (tasks (-) One(r)) (+) One([r EXCEPT !.pc = "chk"])]_vars

\* C7: first match wins: when a press starts a thread, the thread is that of
\* the earliest action, in the fixed order, whose trigger the press matches;
\* a later action with the same trigger is not dispatched.
C7_FirstMatchWins ==
    (last.op = "press" /\ last.started # "none")
        => \E i \in Matched : /\ ActionOrder[i] = last.started
                              /\ \A j \in Matched : i <= j

\* a press that matches the triggers of two actions has started the earlier one
C7_Witness ==
    /\ last.op = "press" /\ last.started # "none"
    /\ \E i \in Matched, j \in Matched : i < j /\ ActionOrder[i] = last.started

\* C8: with global_enabled false, a press of the trigger of Stall, SpeedFlip,
\* StraightDash or TurningDash starts no macro thread (and so no synthetic
\* output: only macro threads issue any).
C8_NothingDispatchedWhenDisabled ==
    (/\ last.op = "press" /\ ~state.global_enabled
     /\ \E i \in Matched : ActionOrder[i] \in Features)
        => last.started \notin Features

\* the trigger of a macro was pressed with global_enabled false and was gated
C8_Witness ==
    /\ PressRouted /\ ~state.global_enabled
    /\ last.res = "gated" /\ last.act \in Features /\ last.started = "none"

\* C9 as stated: for every configuration, with global_enabled false, capture
\* mode off and the kill flag clear, a press of the trigger configured for
\* ToggleAll, Emergency or Exit dispatches that action.
C9_UngatedAlwaysDispatched ==
    (PressRouted /\ ~state.global_enabled)
        => \A i \in Matched : ActionOrder[i] \in Ungated => last.started = ActionOrder[i]

\* C9 as amended: the same, provided no action earlier in the fixed order has
\* a trigger that the same press matches.
C9_UngatedDispatchedWhenFirst ==
    (PressRouted /\ ~state.global_enabled)
        => \A i \in Matched :
             (ActionOrder[i] \in Ungated /\ \A j \in Matched : i <= j)
                 => last.started = ActionOrder[i]

\* with global_enabled false a press has started Emergency
C9_Witness ==
    /\ PressRouted /\ ~state.global_enabled
    /\ last.started = "emergency"

\* C10: with global_enabled true and the feature flag of the action false, a
\* press of the trigger of Stall, SpeedFlip, StraightDash or TurningDash
\* starts no thread.
C10_RouterChecksFeatureFlag ==
    (/\ PressRouted /\ state.global_enabled
     /\ last.act \in Features /\ ~state.features[last.act])
        => last.started = "none"

\* C11: the hold scenario end to end, StraightDash bound to the pad button A:
\* a press of A routed with global and the feature flag on (capture off, kill
\* flag clear, no loop registered) starts the StraightDash thread; a started
\* thread sets the registry entry true; and if from some point on the token of
\* A stays out of the engine's pressed set (the release was delivered and no
\* press follows), then from some point on the registry entry is false and
\* the keys W and Q are up.
C11_PressStartsLoop ==
    (/\ PressRouted /\ last.src = "gp" /\ last.tok = GpToken(BtnA)
     /\ state.global_enabled /\ state.features["straightdash"]
     /\ last.res # "running")
        => last.started = "straightdash"

C11_Released == GpToken(BtnA) \notin gp_pressed

C11_Clean == ~running_hold["straightdash"] /\ keys_down \cap {"W", "Q"} = {}

C11_HoldEndToEnd ==
    /\ []C11_PressStartsLoop
    /\ (\E r \in Threads : r.act = "straightdash" /\ r.pc = "h0")
           ~> running_hold["straightdash"]
    /\ (<>[]C11_Released) => (<>[]C11_Clean)

\* a StraightDash loop that held W and Q has ended after the release of A
C11_Witness ==
    /\ last.op = "end" /\ last.act = "straightdash" /\ last.emg = "no"
    /\ {"W", "Q"} \subseteq last.before
    /\ C11_Released /\ C11_Clean /\ tasks = EmptyBag

\* C12: a hold loop whose global flag or feature flag is false when it comes
\* to the check at the top of its loop body starts no output cycle, whether
\* or not its trigger is still held: it leaves the loop.
C12_FlagOffStopsLoop ==
    [][\A r \in Threads :
         (/\ r.act \in HoldActions /\ r.pc = "chk"
          /\ (~state.global_enabled \/ ~state.features[r.act]))
             => tasks' # (tasks (-) One(r)) (+) One([r EXCEPT !.pc = "c1"])]_vars

\* a hold loop that has run a cycle is in its finally block with its trigger
\* still held and the kill flag clear, a flag being off
C12_Witness ==
    \E r \in Threads :
        /\ r.act \in HoldActions /\ r.pc = "fin" /\ r.held # {}
        /\ ~kill /\ r.emg = "no" /\ _hold_active(r.kind, r.key_req)
        /\ (~state.global_enabled \/ ~state.features[r.act])

\* C13: a hold loop that starts an output cycle works, in that cycle, with the
\* timing values of the configuration in force when the cycle starts: an edit
\* applied through apply_state while the loop runs is in effect from the next
\* cycle on.
C13_EditReachesRunningLoop ==
    [][\A r \in Threads :
         (/\ r.act \in HoldActions /\ r.pc = "chk"
          /\ tasks' = (tasks (-) One(r)) (+) One([r EXCEPT !.pc = "c1"]))
             => r.tm = HoldTimings(r.act)]_vars

Min(a, b) == IF a <= b THEN a ELSE b
Max(a, b) == IF a >= b THEN a ELSE b

\* the milliseconds a SpeedFlip run with the settings tm has just slept when
\* it is at pc (the two computed waits, before sf10 and sf11, are left out)
C14_SleptBefore(pc, tm) ==
    CASE pc = "sf2"  -> tm.sf_a_hold_ms
      [] pc = "sf3"  -> tm.sf_wait_before_jump_ms
      [] pc = "sf4"  -> tm.sf_prejump_ms
      [] pc = "sf5"  -> tm.sf_click_down_ms
      [] pc = "sf6"  -> tm.sf_between_jumps_ms
      [] pc = "sf7"  -> tm.sf_click_down_ms
      [] pc = "sf8"  -> Min(tm.sf_s_hold_ms, tm.sf_d_hold_ms)
      [] pc = "sf9"  -> Max(tm.sf_s_hold_ms, tm.sf_d_hold_ms)
                          - Min(tm.sf_s_hold_ms, tm.sf_d_hold_ms)
      [] pc = "sf12" -> tm.sf_shift_duration_ms
      [] pc = "sf13" -> tm.sf_post_shift_ms

\* C14: a run of Stall or SpeedFlip works with the timing values of one
\* configuration snapshot, the one it copied under the lock when it started:
\* every duration it sleeps is the value of that snapshot, whatever
\* apply_state has made of the engine's configuration since.
C14_OneSnapshotPerRun ==
    \A r \in Threads :
        /\ (r.act = "stall" /\ r.pc = "st2")
              => /\ r.slept = r.tm.stall_click_ms
                 /\ \E st \in Snapshots(env) : r.tm.stall_click_ms = st.timings.stall_click_ms
        /\ (r.act = "speedflip" /\ r.pc # "sf0")
              => \E st \in Snapshots(env) : r.tm = st.timings
        /\ (r.act = "speedflip"
             /\ r.pc \in {"sf2", "sf3", "sf4", "sf5", "sf6", "sf7", "sf8", "sf9", "sf12", "sf13"})
              => r.slept = C14_SleptBefore(r.pc, r.tm)

\* a SpeedFlip run has slept its two hold times after apply_state replaced
\* the snapshot the run had started with
C14_Witness ==
    \E r \in Threads :
        /\ r.act = "speedflip" /\ r.pc = "sf9" /\ r.tm # state.timings
        /\ r.slept = 100

\* C15: the XInput adapter drops no release: whenever the pad answers, button
\* A is up and the polling loop has caught up with it (nothing is left for the
\* loop to report), the release of every press token the adapter delivered
\* has been delivered too, so the token is no longer in its pressed set;
\* unplugging the pad while the button is down makes no difference.
C15_NoReleaseDropped ==
    (pad.on /\ ~pad.down /\ pad.prev = {})
        => GpToken(BtnA) \notin adapter_pressed["xinput"]

\* C16: a press token that arrives from a controller adapter while it is
\* already in the engine's pressed set (the second adapter reporting the same
\* physical press) is a no-op: it starts no thread.
C16_DuplicatePressIgnored ==
    [][(/\ GpToken(BtnA) \in gp_pressed
        /\ adapter_pressed' # adapter_pressed
        /\ last'.op = "press" /\ last'.src = "gp" /\ last'.tok = GpToken(BtnA))
           => last'.started = "none"]_vars

\* C17: a key or pad button pressed while capture mode is on starts no
\* thread, whichever action its token is bound to, ToggleAll, Emergency and
\* Exit included.
C17_CaptureSuppressesDispatch ==
    (last.op = "press" /\ capture_mode) => last.started = "none"

\* with capture mode on, and the kill flag clear, a key bound to an action
\* that the global flag does not gate has been pressed
C17_Witness ==
    /\ last.op = "press" /\ capture_mode /\ ~kill
    /\ last.src = "kb" /\ last.res = "capture"
    /\ \E i \in Matched : ActionOrder[i] \in Ungated

\* C18: round trip: for every trigger t that parse_hotkey produces, keyboard
\* or controller, parse_hotkey of the formatted text of t (the modifiers in the
\* order Ctrl, Alt, Shift, Win, then the symbol; a controller trigger as its
\* bare symbol) is equal to t in kind, modifier set and symbol.
C18_RoundTrip == last.op = "format" => last.back = last.t

\* C19: in a SpeedFlip run the wait before E is released is
\* max(0, airroll - max(s_dur, d_dur)) and the wait before the shift pulse is
\* max(0, shift_start - max(airroll, max(s_dur, d_dur))), for every setting
\* of the four durations; neither is negative; with s=690, d=720 the first
\* is 79 for airroll=799 and 0 for airroll=500.
C19_WaitArithmetic ==
    \A r \in Threads :
        r.act = "speedflip" =>
            LET s_dur == r.tm.sf_s_hold_ms
                d_dur == r.tm.sf_d_hold_ms
                airroll == r.tm.sf_airroll_time_ms
                shift_start == r.tm.sf_shift_start_ms
            IN  /\ r.slept >= 0
                /\ r.pc = "sf10" => r.slept = Max(0, airroll - Max(s_dur, d_dur))
                /\ r.pc = "sf11"
                     => r.slept = Max(0, shift_start - Max(airroll, Max(s_dur, d_dur)))
                /\ (r.pc = "sf10" /\ s_dur = 690 /\ d_dur = 720 /\ airroll = 799)
                     => r.slept = 79
                /\ (r.pc = "sf10" /\ s_dur = 690 /\ d_dur = 720 /\ airroll = 500)
                     => r.slept = 0

\* a run whose air roll ends before its longer hold has released E without a
\* wait, and goes on to a shift pulse that starts before the hold ends
C19_Witness ==
    \E r \in Threads :
        /\ r.act = "speedflip" /\ r.pc = "sf10" /\ r.slept = 0
        /\ r.tm.sf_airroll_time_ms < Max(r.tm.sf_s_hold_ms, r.tm.sf_d_hold_ms)

\* Exit or MacroEngine.stop has set the kill flag
C20_Quitting ==
    \E r \in Threads : \/ (r.act = "exit" /\ r.pc # "x0")
                        \/ (r.act = "close" /\ r.pc # "q0")

\* C20: once Exit or the engine's stop has set the kill flag, no step of any
\* thread clears it, an Emergency run already in flight included, and no press
\* starts a thread.
C20_KillFlagPermanent ==
    [][C20_Quitting =>
         /\ kill => kill'
         /\ ~(last'.op = "press" /\ last'.started # "none")]_vars

\* the number of ToggleAll threads at position pc in the bag b
ToggleAt(pc, b) ==
    LET S == {r \in BagToSet(b) : r.act = "toggle_all" /\ r.pc = pc}
        RECURSIVE Sum(_)
        Sum(T) == IF T = {} THEN 0
                  ELSE LET r == CHOOSE x \in T : TRUE IN CopiesIn(r, b) + Sum(T \ {r})
    IN  Sum(S)

\* C21: the step of a ToggleAll thread that flips the flag writes the negation
\* of the value it found, persists the snapshot that holds the new value and
\* keeps the new value as the thread's own; the thread's last step hands that
\* kept value to the observer, whatever the flag is by then.
C21_ToggleFlipsSavesNotifies ==
    [][/\ ToggleAt("tg0", tasks') < ToggleAt("tg0", tasks)
          => /\ state'.global_enabled = ~state.global_enabled
             /\ last' = Saved(state')
             /\ \E r \in BagToSet(tasks') :
                   /\ r.act = "toggle_all" /\ r.pc = "tg1"
                   /\ r.on = state'.global_enabled
                   /\ CopiesIn(r, tasks') = CopiesIn(r, tasks) + 1
       /\ ToggleAt("tg1", tasks') < ToggleAt("tg1", tasks)
          => \E r \in Threads :
                /\ r.act = "toggle_all" /\ r.pc = "tg1"
                /\ tasks' = tasks (-) One(r)
                /\ last'.op = "end" /\ last'.act = "toggle_all" /\ last'.on = r.on]_vars

\* the observer has been handed a value that is no longer the flag's value
C21_Witness ==
    /\ last.op = "end" /\ last.act = "toggle_all"
    /\ last.on # state.global_enabled

\* a binding text that names no trigger: empty, blank, or "GP:" and no button
NullBinding(text) ==
    \/ str_strip(text) = <<>>
    \/ /\ is_gamepad_hotkey(text)
       /\ str_strip(str_after_first(str_strip(text), ":")) = <<>>

\* C22: no press, of a key or of a pad button, stops the router at an action
\* whose binding names no trigger, and no thread of such an action runs.
C22_NullTriggerNeverMatches ==
    /\ (last.op = "press" /\ last.act # "none") => ~NullBinding(state.hotkeys[last.act])
    /\ \A r \in Threads : ~NullBinding(state.hotkeys[r.act])

\* the token "GP:" has been routed with SpeedFlip bound to "GP:", and has
\* matched nothing
C22_Witness ==
    /\ last.op = "press" /\ last.src = "gp" /\ last.tok = GpPrefix
    /\ last.res = "nomatch"
    /\ NullBinding(state.hotkeys["speedflip"])

\* C23: whatever the launches, Saves, Resets, checkbox clicks and days so far,
\* no report was posted with telemetry disabled, at most one "install" report
\* was posted, and at most one "daily" report on each day.
C23_TelemetryOptInOnce ==
    /\ ~gui.off
    /\ gui.installs <= 1
    /\ \A d \in Days : gui.dailies[d] <= 1

\* the program has been launched again, on the day of its reports and with
\* telemetry enabled, and has posted nothing more
C23_Witness ==
    /\ gui.open /\ gui.tel.enabled /\ gui.launches = MaxLaunches
    /\ gui.today = 1 /\ gui.installs = 1 /\ gui.dailies[1] = 1

\* of S and D, the key with the smaller configured hold, and the other one
ShorterHeld(tm) == IF tm.sf_s_hold_ms < tm.sf_d_hold_ms THEN "S" ELSE "D"
LongerHeld(tm) == IF tm.sf_s_hold_ms < tm.sf_d_hold_ms THEN "D" ELSE "S"
HoldDelta(tm) ==
    IF tm.sf_s_hold_ms < tm.sf_d_hold_ms THEN tm.sf_d_hold_ms - tm.sf_s_hold_ms
    ELSE tm.sf_s_hold_ms - tm.sf_d_hold_ms

\* thread r takes a step of its run and is r2 after it
StepsTo(r, r2) ==
    /\ r2.act = r.act /\ r2.pc # r.pc
    /\ tasks' = (tasks (-) One(r)) (+) One(r2)

\* C24: in a SpeedFlip run whose S and D holds differ, the step that follows
\* the press of S and D releases the key with the smaller hold and presses W
\* before it waits for the difference of the two holds, and the step after
\* that wait releases the other key, with W down already.
C24_ReleaseOrderTracksDurations ==
    [][\A r \in Threads : \A r2 \in BagToSet(tasks') :
         (/\ r.act = "speedflip" /\ r.tm # NoTimings
          /\ r.tm.sf_s_hold_ms # r.tm.sf_d_hold_ms
          /\ StepsTo(r, r2))
         => /\ {"S", "D"} \subseteq r.held
               => /\ r2.held = (r.held \ {ShorterHeld(r.tm)}) \cup {"W"}
                  /\ r2.slept = HoldDelta(r.tm)
            /\ (LongerHeld(r.tm) \in r.held /\ ShorterHeld(r.tm) \notin r.held)
               => /\ "W" \in r.held
                  /\ r2.held = r.held \ {LongerHeld(r.tm)}]_vars

\* C25: every step that changes an entry of the hold-loop registry is the step
\* of a hold-loop thread at a position inside 'with self._lock'.
C25_RegistryWrittenUnderLock ==
    [][running_hold' # running_hold
         => \E r \in Threads :
              /\ r.act \in HoldActions /\ r.pc \in LockedPcs(r.act)
              /\ CopiesIn(r, tasks') < CopiesIn(r, tasks)]_vars

\* C26: no thread is at a position that sleeps or waits for input or output
\* and lies inside 'with self._lock'.
C26_NoWaitUnderLock ==
    \A r \in Threads : r.pc \in WaitPcs(r.act) => r.pc \notin LockedPcs(r.act)

\* the actions, by index in ActionOrder, bound to a keyboard chord (M, K) with
\* K the key named tok and M within the modifier set mods
ChordsWithin(tok, mods) ==
    {i \in DOMAIN ActionOrder :
        LET h == ParsedText[state.hotkeys[ActionOrder[i]]] IN
        /\ h.kind = "kb" /\ h.key # <<>>
        /\ str_upper(h.key) = str_upper(tok)
        /\ \A m \in h.mods : m \in mods}

\* C27: a keyboard binding (M, K) matches a press of K exactly when M is within
\* the modifiers active at the press: the action the router stops at is the
\* first one whose chord is within them, none when there is no such chord; and
\* a later change of the modifiers, a release included, starts and ends no thread.
C27_ModifierSubsetAtPress ==
    [][/\ (last'.op = "press" /\ last'.src = "kb" /\ last'.res \notin {"capture", "kill"})
           => LET M == ChordsWithin(last.tok, kb_mods)' IN
              IF M = {} THEN last'.act = "none"
              ELSE \E i \in M : ActionOrder[i] = last'.act /\ \A j \in M : i <= j
       /\ (last'.op # "press" /\ kb_mods' # kb_mods) => tasks' = tasks]_vars

\* a thread started by the chord Ctrl+H is still there with Ctrl released
C27_Witness ==
    /\ CTRL \notin kb_mods
    /\ \E r \in Threads : r.act = "toggle_all" /\ r.by = "router"

\* C28: while the kill flag is set, a keyboard or controller press starts no
\* thread (Emergency included) and leaves the engine's sets of pressed keys,
\* modifiers and controller tokens as they were.
C28_NoDispatchWhileKilled ==
    [][(kill /\ last'.op = "press")
          => /\ tasks' = tasks
             /\ kb_pressed' = kb_pressed /\ kb_mods' = kb_mods
             /\ gp_pressed' = gp_pressed]_vars

\* the pad button bound to Stall has been pressed with the kill flag set, Stall
\* and the global switch on, capture mode off
C28_Witness ==
    /\ kill /\ ~capture_mode
    /\ last.op = "press" /\ last.src = "gp" /\ last.res = "kill"
    /\ GpMatch("stall", last.tok)
    /\ state.global_enabled /\ state.features["stall"]

\* C29: when ProSuiteGUI._on_close has run to its end, the engine's sets of
\* pressed keys, modifiers and controller tokens are empty, both adapters' sets
\* of pressed tokens are empty, and every entry of _running_hold is false.
C29_ShutdownDrains ==
    (exited /\ \E r \in Threads : r.act = "close" /\ r.pc = "q3")
        => /\ kb_pressed = {} /\ kb_mods = {} /\ gp_pressed = {}
           /\ \A b \in Backends : adapter_pressed[b] = {}
           /\ \A a \in HoldActions : ~running_hold[a]

\* the D-pad tokens a hat value (x, y) stands for
TokensOfHat(v) ==
    {t \in DPadTokens :
        \/ t = DPadTok[DPAD_UP] /\ v[2] = 1
        \/ t = DPadTok[DPAD_DOWN] /\ v[2] = -1
        \/ t = DPadTok[DPAD_RIGHT] /\ v[1] = 1
        \/ t = DPadTok[DPAD_LEFT] /\ v[1] = -1}

\* C30: for one device, the D-pad tokens the pygame adapter holds as pressed
\* are the directions of the latest hat value, at most two and never a pair of
\* opposites; a hat event calls on_release only for directions of the previous
\* value that are not in the new one and on_press only for directions that
\* are new, every call of on_release before every call of on_press.
C30_DPadFollowsHat ==
    LET held == adapter_pressed["pygame"] \cap DPadTokens IN
    /\ held = TokensOfHat(pad.hat)
    /\ Cardinality(held) <= 2
    /\ ~({DPadTok[DPAD_UP], DPadTok[DPAD_DOWN]} \subseteq held)
    /\ ~({DPadTok[DPAD_LEFT], DPadTok[DPAD_RIGHT]} \subseteq held)
    /\ last.op = "hat"
         => /\ \A i \in DOMAIN last.calls :
                  LET c == last.calls[i] IN
                  IF c[1] = "release"
                  THEN c[2] \in TokensOfHat(last.prev) \ TokensOfHat(last.value)
                  ELSE c[2] \in TokensOfHat(last.value) \ TokensOfHat(last.prev)
            /\ \A i, j \in DOMAIN last.calls :
                  (last.calls[i][1] = "press" /\ last.calls[j][1] = "release") => j < i
            /\ {c[2] : c \in {last.calls[i] : i \in DOMAIN last.calls}}
                  = (TokensOfHat(last.prev) \ TokensOfHat(last.value))
                    \cup (TokensOfHat(last.value) \ TokensOfHat(last.prev))

\* the hat has gone from one diagonal to another with one direction kept: one
\* release and then one press
C30_Witness ==
    /\ last.op = "hat" /\ Len(last.calls) = 2
    /\ last.calls[1][1] = "release" /\ last.calls[2][1] = "press"
    /\ Cardinality(adapter_pressed["pygame"] \cap DPadTokens) = 2

\* the keys a hold loop can press
HoldKeys(a) == IF a = "straightdash" THEN {"W", "Q"} ELSE {"W", "Q", "D", "A"}

\* C31: a hold loop that an exception takes out of its loop, in the middle of
\* an output cycle or in the entry block, still runs its cleanup: when the run
\* ends, none of the keys it pressed is left for it to release, no key a loop
\* of its kind can press is down unless another run holds it, and its entry
\* of _running_hold is false.
C31_CleanupAfterError ==
    (last.op = "end" /\ last.act \in HoldActions /\ last.err)
        => /\ last.held = {}
           /\ \A k \in HoldKeys(last.act) :
                 k \in keys_down => \E r \in Threads : k \in r.held
           /\ ~running_hold[last.act]

\* a StraightDash run has ended after time.sleep raised with W and Q down
C31_Witness ==
    /\ last.op = "end" /\ last.act = "straightdash" /\ last.err
    /\ {"W", "Q"} \subseteq last.before

\* C32: with every ToggleAll run ended and every callback it queued run, and
\* no other edit, global_enabled is its first value negated once for each run.
C32_ToggleParity ==
    (gui.after = <<>> /\ \A r \in Threads : r.act # "toggle_all")
        => state.global_enabled
             = (IF gui.odd THEN ~(CHOOSE fl \in Environments[env].flags : TRUE)[1]
                ELSE (CHOOSE fl \in Environments[env].flags : TRUE)[1])

\* C33: from the step in which an Emergency run sets the kill flag to the step
\* in which that run clears it, the flag is set, other Emergency runs or not.
C33_KillHeldThroughEmergency ==
    \A r \in Threads : (r.act = "emergency" /\ r.pc \in {"e1", "e2"}) => kill

\* C34: the events the XInput manager delivers for the token GP:A alternate,
\* starting with a press: a press is never delivered right after a press, a
\* release only right after a press, also while stop() runs next to the
\* polling thread.
C34_EventsAlternate ==
    [][/\ (last'.op = "press" /\ last'.src = "gp") => pad.sent # "press"
       /\ last'.op = "release" => pad.sent = "press"]_vars
\* C35: a press of button A made on an answering XInput pad reaches the
\* engine: the iteration of the polling loop that finds the button newly down
\* delivers the press token, whatever presses, releases, unpluggings and
\* pluggings went before.
C35_PressDelivered ==
    [][(pad.fresh /\ pad.on /\ pad.prev = {} /\ pad'.prev = {BtnA})
          => (last'.op = "press" /\ last'.src = "gp" /\ last'.tok = GpToken(BtnA))]_vars
\* C36: where the feature flag of every bound macro, or the global flag, is
\* off under each snapshot the engine is given, so that it is off from the
\* start of every run to its end, no run of Stall, SpeedFlip or a hold loop
\* issues a key-down or a mouse-down: no key and no mouse button is down at
\* the OS and no run holds one.
C36_NoOutputWhileOff ==
    (\A st \in Snapshots(env) : \A a \in Features :
          ~(st.global_enabled /\ st.features[a]))
        => /\ keys_down = {} /\ ~mouse_down
           /\ \A r \in Threads : r.held = {} /\ ~r.mheld

\* a hold loop that was started with the global flag on and its feature flag
\* off has ended, and so has a Stall
C36_Witness ==
    /\ last.op = "end" /\ last.act \in {"straightdash", "stall"}
    /\ state.global_enabled /\ ~state.features[last.act]
    /\ ~running_hold["straightdash"]
\* C37: no macro leaves the right mouse button down: when a run of Stall,
\* SpeedFlip or a hold loop ends, by its last statement or by an error raised
\* between a mouse-down and its mouse-up, every mouse-down of the run has
\* been followed by a mouse-up.
C37_MouseNeverLeftDown ==
    (last.op = "end" /\ last.act \in Features) => ~last.mheld
\* C38: with Ctrl+H bound to one action and H to another, a press of H while
\* Ctrl is held is routed to the action bound to Ctrl+H, whichever of the two
\* comes first in the order of the actions.
C38_ChordBeatsBareKey ==
    (/\ last.op = "press" /\ last.src = "kb" /\ last.res \notin {"capture", "kill"}
     /\ str_upper(last.tok) = <<"H">> /\ CTRL \in kb_mods)
        => ParsedText[state.hotkeys[last.act]].mods = {CTRL}
\* C39: in a SpeedFlip run whose timings are all non-negative integers every
\* wait is non-negative: each configured wait as it is, the wait between the
\* two releases d - s when s < d and s - d otherwise, and each of the two
\* derived waits zero (skipped) unless it is strictly positive.
C39_SleepsNonNegative ==
    \A r \in Threads :
        (/\ r.act = "speedflip" /\ r.tm # NoTimings
         /\ \A f \in DOMAIN r.tm : r.tm[f] >= 0)
            => LET s == r.tm.sf_s_hold_ms
                   d == r.tm.sf_d_hold_ms
               IN  /\ r.slept >= 0
                   /\ \A pc \in {"sf1", "sf2", "sf3", "sf4", "sf5", "sf6", "sf7", "sf8",
                                "sf9", "sf10", "sf11", "sf12"} :
                         SpeedFlipSleep(pc, r.tm) >= 0
                   /\ r.pc = "sf9" => r.slept = (IF s < d THEN d - s ELSE s - d)
                   /\ (r.pc = "sf10" /\ time_until_e(r.tm) <= 0) => r.slept = 0
                   /\ (r.pc = "sf11" /\ time_until_shift(r.tm) <= 0) => r.slept = 0

\* a run whose S hold is the longer one has slept the difference of the two
\* holds, taken in the else branch
C39_Witness ==
    \E r \in Threads :
        /\ r.act = "speedflip" /\ r.pc = "sf9"
        /\ r.tm.sf_s_hold_ms > r.tm.sf_d_hold_ms
        /\ r.slept = r.tm.sf_s_hold_ms - r.tm.sf_d_hold_ms
====
